---- MODULE Spec2Model ----
(***************************************************************************)
(* Model of the annotation tool da-conde/ai-act-label.                     *)
(*                                                                         *)
(*   - tabs/labeling_daniel.py : the labeling screen of annotator Daniel   *)
(*     (session working copy of label.csv, skip file, manual jump, upload) *)
(*   - tabs/categories.py      : the category registry screen              *)
(*   - utils/gdrive.py         : whole-file reads and writes on Drive      *)
(*                                                                         *)
(* A Streamlit script runs once per user interaction: the run in which a   *)
(* button is pressed executes the button's branch and ends with            *)
(* st.rerun().  One action of this model is one such run.  The upload      *)
(* branch reads label.csv and writes it back in two Drive requests; other  *)
(* writers of the file can act between the two, so it is two actions.      *)
(*                                                                         *)
(* Representation.  Python None is None (-2), a missing pandas cell is     *)
(* NaN (-1), label codes are 0..2.  A table (DataFrame) is a sequence of   *)
(* rows in the physical order of the file; a row is a record with the      *)
(* doc_id, doc_index and filename columns and `cells`, a function from the *)
(* names of the label columns to their values.  Strings are TLA+ strings;  *)
(* str.strip, str.lower, str.startswith and `in` are computed on their     *)
(* characters.  The four options of the segmented control are written      *)
(* "unset" (the dash), "sufficient" (check mark), "unclear" (question      *)
(* mark) and "insufficient" (cross); "" stands for no selection (None).    *)
(*                                                                         *)
(* The label control (options, default, selection, save loop) is also      *)
(* followed on its own, for category names and cell values the plan of the *)
(* labeling runs does not hold.  categories.json is a record [is_dict,     *)
(* data]: whether the file holds a dict, and the dict as a function from   *)
(* category names to payload records; a run of the registry screen loads   *)
(* the file, executes the pressed button's branch, and after a save runs   *)
(* again (st.rerun) and loads the file once more.                          *)
(***************************************************************************)
EXTENDS Integers, Sequences, FiniteSets, TLC

VARIABLES
    label_csv,          \* labelplan/label.csv on Drive: the shared label plan
    skipped_csv,        \* labelplan/skipped_daniel.csv on Drive: sequence of SkipRecords
    readme_index,       \* _cached_readme_index: filenames found in the corpus folder
    df_plan,            \* st.session_state["df_plan_daniel"], per session
    df_dirty,           \* st.session_state["df_dirty_daniel"], per session
    labelplan_version,  \* st.session_state["labelplan_version"], per session
    skipped_cache,      \* st.session_state["daniel_skipped_cache"], per session
    manual_doc_index,   \* st.session_state["dl_manual_doc_index"], per session (None: key absent)
    upload_pc,          \* per session: "idle", or "merge" between the upload's read and write
    df_remote,          \* per session: the plan read by the running upload (<<>> when idle)
    runs,               \* number of script runs with a button pressed, so far
    skip_presses,       \* for each doc_id, how often the skip button was pressed on it
    last_run,           \* per session: [run, op, banner, widgets]: its last run (counted
                        \* in `runs`), the branch it took, the st.success / st.info /
                        \* st.error it showed, and for a save the selections of the
                        \* label controls
    uploaded,           \* per session: for each doc_id and column, the label its last
                        \* successful upload of that cell wrote (NaN: none yet)
    \* one label control of the labeling screen, followed from render to save
    ctl_cat,            \* cat: the category the control belongs to
    ctl_existing,       \* existing: the cell of the current row in the category's column
    ctl_options,        \* options: _label_options_for_category(cat), as rendered
    ctl_default,        \* default_choice: the option the control is rendered with
    ctl_choice,         \* label_widgets[cat]: the selection ("": none)
    ctl_parsed,         \* parsed: _parse_label_choice(cat, choice) of the save loop
    control_pc,         \* "start", "shown", "chosen", "saved"
    \* the category registry screen
    categories_json,    \* categories.json on Drive: [is_dict, data]
    categories,         \* the dict `categories` of render() when the last run ended
    registry_run,       \* the last run of the screen: [op, selected_name, name,
                        \* form, messages, wrote]
    \* the mapping screen
    mapping_csv,        \* data/ai_act_mapping.csv: [exists, columns, rows]
    mapping_df,         \* the table load_mapping_df returned to the last run
    mapping_run,        \* the last run of the screen: [op, path, previous, edited, saved]
    \* the text functions of the labeling screen, applied to one document
    doc_text,           \* the text handed to the function
    doc_pairs,          \* kw_color_pairs: sequence of [keyword, color]
    doc_out,            \* what the function returned ("" before it ran)
    doc_op              \* "none", or the function that ran: "strip", "sanitize",
                        \* "highlight"

labeling_vars == <<label_csv, skipped_csv, readme_index, df_plan, df_dirty, labelplan_version,
                   skipped_cache, manual_doc_index, upload_pc, df_remote, runs, skip_presses,
                   last_run, uploaded>>

control_vars == <<ctl_cat, ctl_existing, ctl_options, ctl_default, ctl_choice, ctl_parsed,
                  control_pc>>

registry_vars == <<categories_json, categories, registry_run>>

mapping_vars == <<mapping_csv, mapping_df, mapping_run>>

readme_vars == <<doc_text, doc_pairs, doc_out, doc_op>>

\* What the runs of one screen leave alone.
outside_labeling == <<control_vars, registry_vars, mapping_vars, readme_vars>>
outside_control == <<labeling_vars, registry_vars, mapping_vars, readme_vars>>
outside_registry == <<labeling_vars, control_vars, mapping_vars, readme_vars>>
outside_mapping == <<labeling_vars, control_vars, registry_vars, readme_vars>>
outside_readme == <<labeling_vars, control_vars, registry_vars, mapping_vars>>

----------------------------------------------------------------------------
(* Values *)

None == -2
NaN == -1
\* A cell that holds a string of white space only (pd.read_csv keeps it a string).
BlankCell == -3

\* Bounds of the model.
NumDocs == 2          \* rows of the label plan
MaxRuns == 4          \* script runs with a button pressed (of the sessions and of the
                      \* other annotator's screen) that a behaviour follows

Sessions == {"A", "B"}

UNSET == "unset"
SUFFICIENT == "sufficient"
UNCLEAR == "unclear"
INSUFFICIENT == "insufficient"

ANNOTATOR_PREFIX == "Daniel__"

TERNARY_CATEGORIES ==
    { "Data Provenance",
      "Data Preparation and Processing",
      "Data Preparation & Processing",
      "Data Preparation and Processing (alle Verarbeitungsschritte ab Existenz der Rohdaten)",
      "Data Preparation and Processing (all processing steps after raw data exists)" }

----------------------------------------------------------------------------
(* Strings *)

Whitespace == {" ", "\t", "\n", "\r", "\f"}
UpperChars == "ABCDEFGHIJKLMNOPQRSTUVWXYZ"
LowerChars == "abcdefghijklmnopqrstuvwxyz"

CharAt(s, i) == SubSeq(s, i, i)

\* str.startswith
StartsWith(s, p) == Len(s) >= Len(p) /\ SubSeq(s, 1, Len(p)) = p

\* `p in s`
Contains(s, p) ==
    \E i \in 1..(Len(s) - Len(p) + 1) : SubSeq(s, i, i + Len(p) - 1) = p

LowerChar(c) ==
    IF \E k \in 1..26 : CharAt(UpperChars, k) = c
    THEN CharAt(LowerChars, CHOOSE k \in 1..26 : CharAt(UpperChars, k) = c)
    ELSE c

\* str.lower
RECURSIVE Lower(_)
Lower(s) == IF s = "" THEN "" ELSE LowerChar(CharAt(s, 1)) \o Lower(SubSeq(s, 2, Len(s)))

\* str.lstrip(chars)
RECURSIVE LStrip(_, _)
LStrip(s, chars) ==
    IF s # "" /\ CharAt(s, 1) \in chars THEN LStrip(SubSeq(s, 2, Len(s)), chars) ELSE s

RECURSIVE RStrip(_, _)
RStrip(s, chars) ==
    IF s # "" /\ CharAt(s, Len(s)) \in chars THEN RStrip(SubSeq(s, 1, Len(s) - 1), chars) ELSE s

\* str.strip()
Strip(s) == RStrip(LStrip(s, Whitespace), Whitespace)

----------------------------------------------------------------------------
(* Label options: _is_ternary_category .. _format_existing_label_for_ui *)

_normalize_cat_name(cat) == Strip(cat)

\* A faulty variant of _is_ternary_category: the keywords are looked up in the
\* name as written.
IsTernaryCaseSensitive(category_name) ==
    LET c == _normalize_cat_name(category_name)
    IN  \/ c \in TERNARY_CATEGORIES
        \/ Contains(c, "provenance")
        \/ Contains(c, "preparation")
        \/ Contains(c, "processing")

_is_ternary_category(category_name) ==
    LET c == _normalize_cat_name(category_name)
        c_low == Lower(c)
    IN  \/ c \in TERNARY_CATEGORIES
        \/ Contains(c_low, "provenance")
        \/ Contains(c_low, "preparation")
        \/ Contains(c_low, "processing")

_label_options_for_category(category_name) ==
    IF _is_ternary_category(category_name)
    THEN <<UNSET, SUFFICIENT, UNCLEAR, INSUFFICIENT>>
    ELSE <<UNSET, SUFFICIENT, INSUFFICIENT>>

\* dict.get(c, None) on the two code tables
TernaryCode(c) ==
    CASE c = SUFFICIENT -> 2 [] c = UNCLEAR -> 1 [] c = INSUFFICIENT -> 0 [] OTHER -> None

BinaryCode(c) ==
    CASE c = SUFFICIENT -> 1 [] c = INSUFFICIENT -> 0 [] OTHER -> None

_parse_label_choice(category_name, choice) ==
    IF choice = "" \/ Strip(choice) \in {"", UNSET}
    THEN None
    ELSE IF _is_ternary_category(category_name)
         THEN TernaryCode(Strip(choice))
         ELSE BinaryCode(Strip(choice))

\* A faulty variant of _format_existing_label_for_ui: the two-valued table
\* for every category.
FormatTwoValued(category_name, existing_val) ==
    IF existing_val = None \/ existing_val = NaN
    THEN UNSET
    ELSE CASE existing_val = 1 -> SUFFICIENT
           [] existing_val = 0 -> INSUFFICIENT
           [] OTHER -> UNSET

_format_existing_label_for_ui(category_name, existing_val) ==
    IF existing_val = None \/ existing_val = NaN
    THEN UNSET
    ELSE IF _is_ternary_category(category_name)
         THEN CASE existing_val = 2 -> SUFFICIENT
                [] existing_val = 1 -> UNCLEAR
                [] existing_val = 0 -> INSUFFICIENT
                [] OTHER -> UNSET
         ELSE CASE existing_val = 1 -> SUFFICIENT
                [] existing_val = 0 -> INSUFFICIENT
                [] OTHER -> UNSET

----------------------------------------------------------------------------
(* The label plan: tables, _get_daniel_columns, _compute_progress,        *)
(* _find_next_doc_index                                                    *)

DocIds == 1..NumDocs

\* The categories of the plan's label columns: one ternary, one binary.
PlanCategories == {"Data Provenance", "Bias and Fairness Disclosure"}

\* `<AnnotatorPrefix>__<CategoryName>`: Daniel's columns and one of annotator Marie.
PlanColumns ==
    {ANNOTATOR_PREFIX \o cat : cat \in PlanCategories} \cup {"Marie__Data Provenance"}

\* Labels the other annotator writes.
ForeignLabels == {2}

\* The plan row of document d before anybody labelled it: doc_index is the
\* zero-based position of the document in the corpus, the file is named after d.
PlanRow(d) ==
    [doc_id |-> d, doc_index |-> d - 1, filename |-> d,
     cells |-> [col \in PlanColumns |-> NaN]]

\* The physical row orders a plan file is created with: by doc_index, or reversed.
PlanOrders ==
    { [i \in 1..NumDocs |-> i], [i \in 1..NumDocs |-> NumDocs + 1 - i] }

Columns(df) == IF Len(df) = 0 THEN {} ELSE DOMAIN df[1].cells

_get_daniel_columns(columns) == {c \in columns : StartsWith(c, ANNOTATOR_PREFIX)}

\* cat_to_col: col.split("Daniel__", 1)[1].lstrip("_") -> col
CategoryOfColumn(col) ==
    LStrip(SubSeq(col, Len(ANNOTATOR_PREFIX) + 1, Len(col)), {"_"})

\* `"doc_id" in df.columns`: a table without the column has no doc_id in any row.
HasDocIdColumn(df) == \A i \in 1..Len(df) : df[i].doc_id # None

HasDocId(df, d) == \E i \in 1..Len(df) : df[i].doc_id = d

\* df[df["doc_id"] == d].iloc[0]
RowOfDocId(df, d) == df[CHOOSE i \in 1..Len(df) :
                          /\ df[i].doc_id = d
                          /\ \A j \in 1..(i - 1) : df[j].doc_id # d]

\* df[df["doc_index"] == k].iloc[0]
RowOfDocIndex(df, k) == df[CHOOSE i \in 1..Len(df) :
                             /\ df[i].doc_index = k
                             /\ \A j \in 1..(i - 1) : df[j].doc_index # k]

SeqToSet(q) == {q[i] : i \in 1..Len(q)}

\* The plan's column names and categories do not change: what the string
\* functions give for them is tabulated once.
DanielColumnsOf == [columns \in SUBSET PlanColumns |-> _get_daniel_columns(columns)]
CategoryOf == [col \in _get_daniel_columns(PlanColumns) |-> CategoryOfColumn(col)]
Choices == {"", UNSET, SUFFICIENT, UNCLEAR, INSUFFICIENT}
ParsedChoice ==
    [cat \in PlanCategories |-> [choice \in Choices |-> _parse_label_choice(cat, choice)]]
OptionsOf == [cat \in PlanCategories |-> SeqToSet(_label_options_for_category(cat))]

\* A faulty variant of DoneMask: a row is done when every column holds a label.
DoneMaskAllColumns(df, daniel_cols, skipped_ids) ==
    [i \in 1..Len(df) |->
        \/ df[i].doc_id \in SeqToSet(skipped_ids)
        \/ \A col \in daniel_cols :
              df[i].cells[col] # NaN /\ df[i].cells[col] # BlankCell]

\* done_mask of _compute_progress, by physical row position: pd.isna(val) and
\* a string that strips to "" are passed over, any other value is a label.
DoneMask(df, daniel_cols, skipped_ids) ==
    [i \in 1..Len(df) |->
        \/ df[i].doc_id \in SeqToSet(skipped_ids)
        \/ \E col \in daniel_cols :
              df[i].cells[col] # NaN /\ df[i].cells[col] # BlankCell]

_compute_progress(df, daniel_cols, skipped_ids) ==
    IF Len(df) = 0
    THEN [total_docs |-> 0, done_docs |-> 0, done_mask |-> <<>>]
    ELSE LET done_mask == DoneMask(df, daniel_cols, skipped_ids)
         IN  [total_docs |-> Len(done_mask),
              done_docs |-> Cardinality({i \in 1..Len(df) : done_mask[i]}),
              done_mask |-> done_mask]

_find_next_doc_index(df, done_mask) ==
    IF Len(df) = 0 \/ \A i \in 1..Len(done_mask) : done_mask[i]
    THEN -1
    ELSE df[CHOOSE i \in 1..Len(done_mask) :
              /\ ~done_mask[i]
              /\ \A j \in 1..(i - 1) : done_mask[j]].doc_index

----------------------------------------------------------------------------
(* render, up to the choice of the current document (steps 1 to 5)         *)

Progress(s) ==
    _compute_progress(df_plan[s], DanielColumnsOf[Columns(df_plan[s])], skipped_cache[s])

AvailableIndices(s) == {df_plan[s][i].doc_index : i \in 1..Len(df_plan[s])}

\* A faulty variant of CurrentIndex: the manual target is used only while its row is undone.
CurrentIndexUndoneOnly(s) ==
    IF /\ manual_doc_index[s] # None
       /\ \E i \in 1..Len(df_plan[s]) :
            df_plan[s][i].doc_index = manual_doc_index[s] /\ ~Progress(s).done_mask[i]
    THEN manual_doc_index[s]
    ELSE _find_next_doc_index(df_plan[s], Progress(s).done_mask)

CurrentIndex(s) ==
    IF manual_doc_index[s] # None /\ manual_doc_index[s] \in AvailableIndices(s)
    THEN manual_doc_index[s]
    ELSE _find_next_doc_index(df_plan[s], Progress(s).done_mask)

CurrentRow(s) == RowOfDocIndex(df_plan[s], CurrentIndex(s))

\* A faulty variant of Screen: a file that is not in the index does not end the run.
ScreenWithoutFileTest(s) ==
    IF df_plan[s] = <<>> THEN "no_plan"
    ELSE IF ~HasDocIdColumn(df_plan[s]) THEN "exception"
    ELSE IF CurrentIndex(s) = -1 THEN "complete"
    ELSE "document"

\* What the run shows below the options: the error of the plan that could not
\* be loaded or has no rows (and nothing after it), the exception of row["doc_id"] in
\* _compute_progress when the working copy has no such column (and nothing
\* after it), the completion message (and
\* nothing after it), the missing-file error (and nothing after it), or the
\* document with the label controls and the save, skip, upload and jump buttons.
Screen(s) ==
    LET current_index == CurrentIndex(s)
    IN  IF df_plan[s] = <<>> THEN "no_plan"
        ELSE IF ~HasDocIdColumn(df_plan[s]) THEN "exception"
        ELSE IF current_index = -1 THEN "complete"
        ELSE IF RowOfDocIndex(df_plan[s], current_index).filename \notin readme_index
             THEN "file_missing"
             ELSE "document"

----------------------------------------------------------------------------
(* render: the button branches                                             *)

NoWidgets == [cat \in PlanCategories |-> UNSET]

RanWith(s, op, shown, label_widgets) ==
    last_run' = [last_run EXCEPT
                   ![s] = [run |-> runs', op |-> op, banner |-> shown,
                           widgets |-> label_widgets]]

Ran(s, op, shown) == RanWith(s, op, shown, NoWidgets)

\* A run with a button pressed starts.
Pressed == runs < MaxRuns /\ runs' = runs + 1

\* The selections of the label controls a save is pressed with: for each
\* category one of its options.
WidgetChoices ==
    { w \in [PlanCategories -> Choices] : \A cat \in PlanCategories : w[cat] \in OptionsOf[cat] }

\* A faulty variant of StoreChoice: an unset control clears the cell.
StoreChoiceClearing(existing, parsed) == IF parsed = None THEN NaN ELSE parsed

\* One pass of the save loop: `if parsed is None: continue`, else the cell is
\* assigned int(parsed).
StoreChoice(existing, parsed) == IF parsed = None THEN existing ELSE parsed

\* A faulty variant of SaveLabels: the assignment without the row mask.
SaveLabelsAllRows(df, doc_id, daniel_cols, label_widgets) ==
    [i \in 1..Len(df) |->
        [df[i] EXCEPT !.cells =
            [col \in DOMAIN df[i].cells |->
                IF col \in daniel_cols
                THEN StoreChoice(df[i].cells[col],
                                 ParsedChoice[CategoryOf[col]][label_widgets[CategoryOf[col]]])
                ELSE df[i].cells[col]]]]

\* The save loop over the categories, on the rows of doc_id.
SaveLabels(df, doc_id, daniel_cols, label_widgets) ==
    [i \in 1..Len(df) |->
        IF df[i].doc_id = doc_id
        THEN [df[i] EXCEPT !.cells =
                [col \in DOMAIN df[i].cells |->
                    IF col \in daniel_cols
                    THEN StoreChoice(df[i].cells[col],
                                     ParsedChoice[CategoryOf[col]][label_widgets[CategoryOf[col]]])
                    ELSE df[i].cells[col]]]
        ELSE df[i]]

\* A faulty variant of AnyChanged: any_changed is True after every save.
AnyChangedAlways(daniel_cols, label_widgets) == TRUE

\* A faulty variant of AnyChanged: any_changed stays False.
AnyChangedNever(daniel_cols, label_widgets) == FALSE

\* any_changed after the save loop
AnyChanged(daniel_cols, label_widgets) ==
    \E col \in daniel_cols :
        ParsedChoice[CategoryOf[col]][label_widgets[CategoryOf[col]]] # None

\* "Label lokal speichern & naechste README"
Save(s, label_widgets) ==
    /\ upload_pc[s] = "idle"
    /\ Screen(s) = "document"
    /\ Pressed
    /\ LET doc_id == CurrentRow(s).doc_id
           daniel_cols == DanielColumnsOf[Columns(df_plan[s])]
       IN  IF ~HasDocId(df_plan[s], doc_id)
           THEN /\ RanWith(s, "save", "error", label_widgets)
                /\ UNCHANGED <<df_plan, df_dirty, manual_doc_index>>
           ELSE /\ df_plan' = [df_plan EXCEPT
                                 ![s] = SaveLabels(@, doc_id, daniel_cols, label_widgets)]
                /\ df_dirty' = [df_dirty EXCEPT
                                  ![s] = IF AnyChanged(daniel_cols, label_widgets)
                                         THEN TRUE ELSE @]
                /\ manual_doc_index' = [manual_doc_index EXCEPT ![s] = None]
                /\ RanWith(s, "save", "success", label_widgets)
    /\ UNCHANGED <<label_csv, skipped_csv, readme_index, labelplan_version, skipped_cache,
                   upload_pc, df_remote, skip_presses, uploaded>>
    /\ UNCHANGED outside_labeling

\* A faulty variant of AppendSkipRecord: the record is appended without the membership test.
AppendSkipRecordAlways(df, corpus_doc_id, filename) ==
    Append(df, [doc_id |-> corpus_doc_id, filename |-> filename])

\* _append_skipped_id, the file: the record is appended unless the doc_id is there.
AppendSkipRecord(df, corpus_doc_id, filename) ==
    IF corpus_doc_id \notin {df[i].doc_id : i \in 1..Len(df)}
    THEN Append(df, [doc_id |-> corpus_doc_id, filename |-> filename])
    ELSE df

\* _append_skipped_id, the session cache.
AppendSkipCache(skipped, corpus_doc_id) ==
    IF corpus_doc_id \notin SeqToSet(skipped) THEN Append(skipped, corpus_doc_id) ELSE skipped

\* "README ueberspringen"
Skip(s) ==
    /\ upload_pc[s] = "idle"
    /\ Screen(s) = "document"
    /\ Pressed
    /\ skipped_csv' = AppendSkipRecord(skipped_csv, CurrentRow(s).doc_id, CurrentRow(s).filename)
    /\ skipped_cache' = [skipped_cache EXCEPT ![s] = AppendSkipCache(@, CurrentRow(s).doc_id)]
    /\ manual_doc_index' = [manual_doc_index EXCEPT ![s] = None]
    /\ skip_presses' = [skip_presses EXCEPT ![CurrentRow(s).doc_id] = @ + 1]
    /\ Ran(s, "skip", "info")
    /\ UNCHANGED <<label_csv, readme_index, df_plan, df_dirty, labelplan_version,
                   upload_pc, df_remote, uploaded>>
    /\ UNCHANGED outside_labeling

\* "Zu dieser README springen": the selector offers the doc_index values of the plan.
Jump(s, selected_jump_idx) ==
    /\ upload_pc[s] = "idle"
    /\ Screen(s) = "document"
    /\ Pressed
    /\ selected_jump_idx \in AvailableIndices(s)
    /\ manual_doc_index' = [manual_doc_index EXCEPT ![s] = selected_jump_idx]
    /\ Ran(s, "jump", "none")
    /\ UNCHANGED <<label_csv, skipped_csv, readme_index, df_plan, df_dirty, labelplan_version,
                   skipped_cache, upload_pc, df_remote, skip_presses, uploaded>>
    /\ UNCHANGED outside_labeling

\* The session has no working copy: the run that had to load the plan showed
\* the error of the request and returned.
NoPlan == <<>>

\* A faulty variant of ReloadPlan: the working copy is not dropped.
ReloadPlanKeepsCopy(s, drive_ok) ==
    /\ upload_pc[s] = "idle"
    /\ Pressed
    /\ labelplan_version' = [labelplan_version EXCEPT ![s] = @ + 1]
    /\ df_dirty' = [df_dirty EXCEPT ![s] = FALSE]
    /\ Ran(s, "reload", IF drive_ok THEN "info" ELSE "error")
    /\ UNCHANGED <<label_csv, skipped_csv, readme_index, skipped_cache, manual_doc_index,
                   upload_pc, df_remote, skip_presses, uploaded, df_plan>>
    /\ UNCHANGED outside_labeling

\* "Labelplan von Drive neu laden": the working copy is dropped, and the run that
\* follows st.rerun() copies the plan it loads from Drive.  drive_ok = FALSE:
\* the request of that run raises, the run shows the error and returns, and the
\* session is left without a working copy.
ReloadPlan(s, drive_ok) ==
    /\ upload_pc[s] = "idle"
    /\ Pressed
    /\ labelplan_version' = [labelplan_version EXCEPT ![s] = @ + 1]
    /\ df_plan' = [df_plan EXCEPT ![s] = IF drive_ok THEN label_csv ELSE NoPlan]
    /\ df_dirty' = [df_dirty EXCEPT ![s] = FALSE]
    /\ Ran(s, "reload", IF drive_ok THEN "info" ELSE "error")
    /\ UNCHANGED <<label_csv, skipped_csv, readme_index, skipped_cache, manual_doc_index,
                   upload_pc, df_remote, skip_presses, uploaded>>
    /\ UNCHANGED outside_labeling

\* A faulty variant of UploadMerge: the working copy is written over the whole file.
UploadWholeFile(remote, df_local) == df_local

\* A faulty variant of UploadMerge: update(overwrite=False), a set remote cell is kept.
UploadMergeRemoteWins(remote, df_local) ==
    [i \in 1..Len(remote) |->
        [remote[i] EXCEPT !.cells =
            [col \in DOMAIN remote[i].cells |->
                IF /\ StartsWith(col, ANNOTATOR_PREFIX)
                   /\ remote[i].cells[col] = NaN
                   /\ \E j \in 1..Len(df_local) : df_local[j].doc_id = remote[i].doc_id
                THEN df_local[CHOOSE j \in 1..Len(df_local) :
                                df_local[j].doc_id = remote[i].doc_id].cells[col]
                ELSE remote[i].cells[col]]]]

\* A faulty variant of UploadMerge: an empty cell of the working copy clears the
\* remote cell.
UploadMergeEmptyCells(remote, df_local) ==
    [i \in 1..Len(remote) |->
        IF HasDocId(df_local, remote[i].doc_id)
        THEN [remote[i] EXCEPT !.cells =
                [col \in DOMAIN remote[i].cells |->
                    IF col \in DanielColumnsOf[Columns(df_local)]
                    THEN RowOfDocId(df_local, remote[i].doc_id).cells[col]
                    ELSE remote[i].cells[col]]]
        ELSE remote[i]]

\* df_remote.set_index("doc_id"); df_remote.update(df_local_idx[daniel_cols]);
\* reset_index: on the rows whose doc_id the local copy has, the set (non-NaN)
\* local cells of Daniel's columns replace the remote cells.
UploadMerge(remote, df_local) ==
    LET daniel_cols_remote == DanielColumnsOf[Columns(df_local)]
    IN  [i \in 1..Len(remote) |->
            IF HasDocId(df_local, remote[i].doc_id)
            THEN [remote[i] EXCEPT !.cells =
                    [col \in DOMAIN remote[i].cells |->
                        IF /\ col \in daniel_cols_remote
                           /\ RowOfDocId(df_local, remote[i].doc_id).cells[col] # NaN
                        THEN RowOfDocId(df_local, remote[i].doc_id).cells[col]
                        ELSE remote[i].cells[col]]]
            ELSE remote[i]]

\* "Labels nach Drive hochladen", first request: load_csv_from_drive(plan_file_id).
\* drive_ok = FALSE: the request raises, the except branch shows the error; a
\* plan without the doc_id column shows the error of line 851.
UploadRead(s, drive_ok) ==
    /\ upload_pc[s] = "idle"
    /\ Screen(s) = "document"
    /\ Pressed
    /\ IF drive_ok /\ HasDocIdColumn(label_csv)
       THEN /\ df_remote' = [df_remote EXCEPT ![s] = label_csv]
            /\ upload_pc' = [upload_pc EXCEPT ![s] = "merge"]
            /\ Ran(s, "upload", "none")
       ELSE /\ Ran(s, "upload", "error")
            /\ UNCHANGED <<df_remote, upload_pc>>
    /\ UNCHANGED <<label_csv, skipped_csv, readme_index, df_plan, df_dirty, labelplan_version,
                   skipped_cache, manual_doc_index, skip_presses, uploaded>>
    /\ UNCHANGED outside_labeling

\* The label cells an upload of df_local onto remote writes, added to the record.
RecordUploaded(record, remote, df_local) ==
    [d \in DocIds |-> [col \in PlanColumns |->
        IF /\ HasDocId(remote, d) /\ HasDocId(df_local, d)
           /\ col \in DanielColumnsOf[Columns(df_local)]
           /\ RowOfDocId(df_local, d).cells[col] # NaN
        THEN RowOfDocId(df_local, d).cells[col]
        ELSE record[d][col]]]

\* A faulty variant of UploadWrite: the flags are set before the request.
UploadWriteFlagsFirst(s, drive_ok) ==
    /\ upload_pc[s] = "merge"
    /\ runs' = runs
    /\ upload_pc' = [upload_pc EXCEPT ![s] = "idle"]
    /\ df_remote' = [df_remote EXCEPT ![s] = <<>>]
    /\ df_dirty' = [df_dirty EXCEPT ![s] = FALSE]
    /\ labelplan_version' = [labelplan_version EXCEPT ![s] = @ + 1]
    /\ IF drive_ok
       THEN /\ label_csv' = UploadMerge(df_remote[s], df_plan[s])
            /\ uploaded' = [uploaded EXCEPT
                              ![s] = RecordUploaded(@, df_remote[s], df_plan[s])]
            /\ Ran(s, "upload", "success")
       ELSE /\ Ran(s, "upload", "error")
            /\ UNCHANGED <<label_csv, uploaded>>
    /\ UNCHANGED <<skipped_csv, readme_index, df_plan, skipped_cache, manual_doc_index,
                   skip_presses>>
    /\ UNCHANGED outside_labeling

\* second request: save_csv_to_drive(df_remote, plan_file_id), then the flags.
UploadWrite(s, drive_ok) ==
    /\ upload_pc[s] = "merge"
    /\ runs' = runs
    /\ upload_pc' = [upload_pc EXCEPT ![s] = "idle"]
    /\ df_remote' = [df_remote EXCEPT ![s] = <<>>]
    /\ IF drive_ok
       THEN /\ label_csv' = UploadMerge(df_remote[s], df_plan[s])
            /\ df_dirty' = [df_dirty EXCEPT ![s] = FALSE]
            /\ labelplan_version' = [labelplan_version EXCEPT ![s] = @ + 1]
            /\ uploaded' = [uploaded EXCEPT
                              ![s] = RecordUploaded(@, df_remote[s], df_plan[s])]
            /\ Ran(s, "upload", "success")
       ELSE /\ Ran(s, "upload", "error")
            /\ UNCHANGED <<label_csv, df_dirty, labelplan_version, uploaded>>
    /\ UNCHANGED <<skipped_csv, readme_index, df_plan, skipped_cache, manual_doc_index,
                   skip_presses>>
    /\ UNCHANGED outside_labeling

\* The other annotator's screen uploads a label into her column of row d.
SetCell(df, d, col, v) ==
    [i \in 1..Len(df) |->
        IF df[i].doc_id = d THEN [df[i] EXCEPT !.cells[col] = v] ELSE df[i]]

\* Another writer replaces the plan file by a table without the doc_id column.
WithoutDocId(df) == [i \in 1..Len(df) |-> [df[i] EXCEPT !.doc_id = None]]

OtherWriterDropsDocId ==
    /\ HasDocIdColumn(label_csv)
    /\ label_csv' = WithoutDocId(label_csv)
    /\ UNCHANGED <<skipped_csv, readme_index, df_plan, df_dirty, labelplan_version,
                   skipped_cache, manual_doc_index, upload_pc, df_remote, skip_presses,
                   last_run, uploaded, runs>>
    /\ UNCHANGED outside_labeling

OtherAnnotatorUpload(d, v) ==
    /\ Pressed
    /\ label_csv' = SetCell(label_csv, d, "Marie__Data Provenance", v)
    /\ UNCHANGED <<skipped_csv, readme_index, df_plan, df_dirty, labelplan_version,
                   skipped_cache, manual_doc_index, upload_pc, df_remote, skip_presses,
                   last_run, uploaded>>
    /\ UNCHANGED outside_labeling

----------------------------------------------------------------------------
(* One label control, from render to the save loop                         *)

\* Category names as plan columns and the registry spell them.
CategoryNames ==
    { "Data Provenance",
      "  Data Provenance ",
      "DATA PROVENANCE",
      "Data Preparation and Processing",
      "Data Preparation & Processing",
      "Data Preparation and Processing (all processing steps after raw data exists)",
      "Preprocessing",
      "data preparation",
      "Bias and Fairness Disclosure",
      "Data Composition",
      "Obtained From",
      "Provenanc",
      "" }

\* What a label cell of the plan can hold: nothing, or an integer.
CellValues == {None, NaN, 0, 1, 2, 3}

\* render: options and default_choice of the control.
ShowControl ==
    /\ control_pc \in {"start", "saved"}
    /\ ctl_options' = _label_options_for_category(ctl_cat)
    /\ ctl_default' =
          LET shown == _format_existing_label_for_ui(ctl_cat, ctl_existing)
          IN  IF \E i \in 1..Len(ctl_options') : ctl_options'[i] = shown THEN shown ELSE UNSET
    /\ control_pc' = "shown"
    /\ UNCHANGED <<ctl_cat, ctl_existing, ctl_choice, ctl_parsed>>
    /\ UNCHANGED outside_control

\* The user picks one of the options, or takes the selection away.
SelectOption(c) ==
    /\ control_pc = "shown"
    /\ c = "" \/ \E i \in 1..Len(ctl_options) : ctl_options[i] = c
    /\ ctl_choice' = c
    /\ control_pc' = "chosen"
    /\ UNCHANGED <<ctl_cat, ctl_existing, ctl_options, ctl_default, ctl_parsed>>
    /\ UNCHANGED outside_control

\* One pass of the save loop for the category.
SaveControl ==
    /\ control_pc = "chosen"
    /\ ctl_parsed' = _parse_label_choice(ctl_cat, ctl_choice)
    /\ ctl_existing' = StoreChoice(ctl_existing, ctl_parsed')
    /\ control_pc' = "saved"
    /\ UNCHANGED <<ctl_cat, ctl_options, ctl_default, ctl_choice>>
    /\ UNCHANGED outside_control

----------------------------------------------------------------------------
(* tabs/categories.py: the category registry screen                        *)

\* dict operations
EmptyDict == [n \in {} |-> 0]
DictSet(d, k, v) == [n \in DOMAIN d \cup {k} |-> IF n = k THEN v ELSE d[n]]
DictPop(d, k) == [n \in DOMAIN d \ {k} |-> d[n]]

\* The line boundaries of str.splitlines() among the characters of the model;
\* "\r\n" is one boundary.
LineBreaks == {"\n", "\r", "\f"}

\* The length of the first line of a text that is not empty, and the number
\* of characters of the boundary that ends it (0 at the end of the text).
FirstLineLen(text) ==
    LET breaks == {i \in 1..Len(text) : CharAt(text, i) \in LineBreaks}
    IN  IF breaks = {} THEN Len(text)
        ELSE (CHOOSE i \in breaks : \A j \in breaks : i <= j) - 1

BreakLen(text, k) ==
    IF k > Len(text) THEN 0
    ELSE IF CharAt(text, k) = "\r" /\ k < Len(text) /\ CharAt(text, k + 1) = "\n" THEN 2
    ELSE 1

\* str.splitlines()
RECURSIVE SplitLines(_)
SplitLines(text) ==
    IF text = "" THEN <<>>
    ELSE LET n == FirstLineLen(text)
         IN  <<SubSeq(text, 1, n)>>
             \o SplitLines(SubSeq(text, n + 1 + BreakLen(text, n + 1), Len(text)))

NonBlank(line) == Strip(line) # ""

\* A faulty variant of _multiline_to_list: the lines are taken as split, blank
\* lines and surrounding whitespace included.
MultilineToListUntrimmed(text) ==
    IF text = "" THEN <<>> ELSE SplitLines(text)

_multiline_to_list(text) ==
    IF text = "" THEN <<>>
    ELSE LET kept == SelectSeq(SplitLines(text), NonBlank)
         IN  [i \in 1..Len(kept) |-> Strip(kept[i])]

RECURSIVE _list_to_multiline(_)
_list_to_multiline(values) ==
    IF values = <<>> THEN ""
    ELSE IF Len(values) = 1 THEN values[1]
    ELSE values[1] \o "\n" \o _list_to_multiline(Tail(values))

label_unit_options == <<"sentence", "paragraph", "document", "other">>

\* What the user types into the name fields, and two fillings of the form.
NameInputs == {"", "Data_Source", " Data_Source ", "Synthetic_Disclosure", "Synthetic_Ethics"}

FormInputs ==
    { [label_unit |-> "sentence",
       description |-> " origin of the data ",
       ds_pos |-> "synthetic dataset\n\n simulated data \n",
       ds_neg |-> "",
       sent_pos |-> "this dataset is synthetic",
       sent_neg |-> "real data only\r\nno synthetic data"],
      [label_unit |-> "document",
       description |-> "",
       ds_pos |-> "",
       ds_neg |-> "",
       sent_pos |-> "",
       sent_neg |-> ""] }

\* The keys a registry of the model can hold.
RegistryNames == {"Data_Source", "Synthetic_Disclosure", "Synthetic_Ethics"}

\* The payload the create and update branches build from the form.
NewPayload(form) ==
    [label_unit |-> form.label_unit,
     description |-> Strip(form.description),
     dataset_search_queries_positive |-> _multiline_to_list(form.ds_pos),
     dataset_search_queries_negative |-> _multiline_to_list(form.ds_neg),
     sentence_keywords_positive |-> _multiline_to_list(form.sent_pos),
     sentence_keywords_negative |-> _multiline_to_list(form.sent_neg)]

\* A run in which no form was submitted.
NoForm ==
    [label_unit |-> "", description |-> "", ds_pos |-> "", ds_neg |-> "",
     sent_pos |-> "", sent_neg |-> ""]

\* dict.get(key, default)
Get(d, key, default) == IF key \in DOMAIN d THEN d[key] ELSE default

\* The edit form as rendered for the selected category.
EditForm(selected_data) ==
    LET current_label_unit == Get(selected_data, "label_unit", "sentence")
    IN  [label_unit |-> IF \E i \in 1..Len(label_unit_options) :
                              label_unit_options[i] = current_label_unit
                        THEN current_label_unit ELSE "sentence",
         description |-> Get(selected_data, "description", ""),
         ds_pos |-> _list_to_multiline(
                       Get(selected_data, "dataset_search_queries_positive", <<>>)),
         ds_neg |-> _list_to_multiline(
                       Get(selected_data, "dataset_search_queries_negative", <<>>)),
         sent_pos |-> _list_to_multiline(
                       Get(selected_data, "sentence_keywords_positive", <<>>)),
         sent_neg |-> _list_to_multiline(
                       Get(selected_data, "sentence_keywords_negative", <<>>))]

\* The payloads of the form fillings, computed once.
PayloadOf == [form \in FormInputs |-> NewPayload(form)]

\* _load_categories: the dict of the file; {} when the request fails (drive_ok
\* FALSE) or the file holds no dict.
_load_categories(file, drive_ok) ==
    IF drive_ok /\ file.is_dict THEN file.data ELSE EmptyDict

LoadMessages(file, drive_ok) ==
    IF ~drive_ok THEN {"load_error"} ELSE IF ~file.is_dict THEN {"load_warning"} ELSE {}

\* _save_categories: the file after the request; a failure is caught and shown.
_save_categories(file, data, drive_ok) ==
    IF drive_ok THEN [is_dict |-> TRUE, data |-> data] ELSE file

SaveMessages(drive_ok) == IF drive_ok THEN {} ELSE {"save_error"}

RegistryRan(op, selected_name, name, form, messages, wrote) ==
    registry_run' = [op |-> op, selected_name |-> selected_name, name |-> name,
                     form |-> form, messages |-> messages, wrote |-> wrote]

\* A record of categories.json that the screen did not write: a label_unit
\* that is not an option of the form, and the keywords under the older field
\* name that _collect_positive_keywords_by_category of the labeling screen
\* still reads.
OlderRecord ==
    [label_unit |-> "token",
     description |-> "ethics statement",
     sentence_keywords |-> <<"ethical review">>]

\* A run in which no button is pressed.
RenderRegistry(load_ok) ==
    /\ categories' = _load_categories(categories_json, load_ok)
    /\ RegistryRan("render", "", "", NoForm, LoadMessages(categories_json, load_ok), FALSE)
    /\ UNCHANGED categories_json
    /\ UNCHANGED outside_registry

\* The branch of a button that saved: the dict is written, the message is
\* issued, and st.rerun() starts the run that loads the file again.
SaveAndRerun(op, selected_name, name, form, updated, message, loaded_messages, save_ok, reload_ok) ==
    /\ categories_json' = _save_categories(categories_json, updated, save_ok)
    /\ categories' = _load_categories(categories_json', reload_ok)
    /\ RegistryRan(op, selected_name, name, form,
                   loaded_messages \cup SaveMessages(save_ok) \cup {message}, TRUE)

\* The branch of a button that refused: an error, and the rest of the run.
Refuse(op, selected_name, name, form, loaded, message, loaded_messages) ==
    /\ categories' = loaded
    /\ RegistryRan(op, selected_name, name, form, loaded_messages \cup {message},
                   FALSE)
    /\ UNCHANGED categories_json

\* "Neue Kategorie speichern"
CreateCategory(new_name, form, load_ok, save_ok, reload_ok) ==
    /\ LET loaded == _load_categories(categories_json, load_ok)
           shown == LoadMessages(categories_json, load_ok)
           name == Strip(new_name)
       IN  IF name = ""
           THEN Refuse("create", "", name, form, loaded, "name_missing", shown)
           ELSE IF name \in DOMAIN loaded
           THEN Refuse("create", "", name, form, loaded, "name_exists", shown)
           ELSE SaveAndRerun("create", "", name, form,
                             DictSet(loaded, name, PayloadOf[form]),
                             "created", shown, save_ok, reload_ok)
    /\ UNCHANGED outside_registry

\* A faulty variant of RenameCollides: the target name is not looked up.
RenameUnchecked(new_name, selected_name, loaded) == FALSE

\* `new_name != selected_name and new_name in categories`
RenameCollides(new_name, selected_name, loaded) ==
    new_name # selected_name /\ new_name \in DOMAIN loaded

\* The dictionary an update saves: the old key is removed when the name
\* changed, and the new payload is stored under the new name.
Renamed(loaded, selected_name, new_name, new_payload) ==
    LET kept == IF new_name # selected_name
                THEN DictPop(loaded, selected_name) ELSE loaded
    IN  DictSet(kept, new_name, new_payload)

\* "Kategorie aktualisieren": the edit column is rendered when the loaded dict
\* is not empty; the form holds the selected category's fields, or (edited)
\* what the user typed over them.
UpdateCategory(selected_name, edit_name, edited, typed, save_ok, reload_ok) ==
    /\ LET loaded == _load_categories(categories_json, TRUE)
           new_name == Strip(edit_name)
       IN  /\ selected_name \in DOMAIN loaded
           /\ LET form == IF edited THEN typed ELSE EditForm(loaded[selected_name])
              IN  IF new_name = ""
                  THEN Refuse("update", selected_name, new_name, form, loaded,
                              "name_missing", {})
                  ELSE IF RenameCollides(new_name, selected_name, loaded)
                  THEN Refuse("update", selected_name, new_name, form, loaded,
                              "collision", {})
                  ELSE SaveAndRerun("update", selected_name, new_name, form,
                                    Renamed(loaded, selected_name, new_name,
                                            NewPayload(form)),
                                    "updated", {}, save_ok, reload_ok)
    /\ UNCHANGED outside_registry

\* "Kategorie loeschen"
DeleteCategory(selected_name, save_ok, reload_ok) ==
    /\ LET loaded == _load_categories(categories_json, TRUE)
       IN  /\ selected_name \in DOMAIN loaded
           /\ SaveAndRerun("delete", selected_name, "", NoForm, DictPop(loaded, selected_name),
                           "deleted", {}, save_ok, reload_ok)
    /\ UNCHANGED outside_registry

----------------------------------------------------------------------------
(* The mapping screen (tabs/ai_act_mapping.py) *)

\* The file is [exists, columns, rows]: whether data/ai_act_mapping.csv is
\* there, the names in its header, and its lines below the header as records
\* of the raw text of the pillar, category and detail cells ("" in a column
\* the header does not name).  A DataFrame is the sequence of its rows.
MappingColumns == {"pillar", "category", "detail"}

MissingFile == [exists |-> FALSE, columns |-> {}, rows |-> <<>>]

wanted_cats ==
    <<"Data Provenance",
      "Data Composition",
      "Obtained From",
      "Data Preparation and Processing",
      "Bias and Fairness Disclosure",
      "Annahmen über den Datensatz">>

\* rows of default_mapping_df
DefaultRows ==
    <<[pillar |-> "Art. 10(2)(b)", category |-> "Data Provenance",
       detail |-> "Quelle/Herkunft des Datensatzes (inkl. direkter Vorgänger bei Derived Datasets)."],
      [pillar |-> "Art. 10(2)", category |-> "Data Composition",
       detail |-> "Zusammensetzung/Typ der Daten (z. B. real-world vs. synthetic; selbst erhoben)."],
      [pillar |-> "Annex IV 2(d)", category |-> "Obtained From",
       detail |-> "Wie die Daten bezogen/erhoben/selektiert wurden (z. B. Scraping, Sensor, API, Sampling)."],
      [pillar |-> "Art. 10(2)(c)", category |-> "Data Preparation and Processing",
       detail |-> "Welche Verarbeitungsschritte ab Rohdaten erfolgt sind (oder explizit: keine)."],
      [pillar |-> "Art. 10(2)(f)(g)", category |-> "Bias and Fairness Disclosure",
       detail |-> "Bias/Fairness/Representativität: bekannte Risiken oder durchgeführte Analysen."],
      [pillar |-> "Art. 10(2)(d)", category |-> "Annahmen über den Datensatz",
       detail |-> "Sachebene & Kontext: was die Daten darstellen/messen sollen (nicht nur technische Specs)."]>>

\* A faulty variant of default_mapping_df: the rows in reverse order.
DefaultMappingReversed ==
    [k \in 1..Len(DefaultRows) |-> DefaultRows[Len(DefaultRows) + 1 - k]]

\* pd.DataFrame(rows, columns=["pillar", "category", "detail"])
default_mapping_df == DefaultRows

\* df.to_csv(MAPPING_FILE, index=False): the header and the cells as they are
\* (the writer quotes a cell that holds a comma).
to_csv(df) == [exists |-> TRUE, columns |-> MappingColumns, rows |-> df]

\* Cell texts that pd.read_csv, called with its defaults, reads as a missing
\* value (NaN) and not as text.
na_values ==
    {"", "#N/A", "#NA", "<NA>", "N/A", "NA", "NULL", "NaN", "None", "n/a", "nan", "null"}

\* A cell as read_csv parses it and fillna("").astype(str).str.strip() cleans
\* it: a missing value becomes "", text is stripped.
CleanCell(raw) == IF raw \in na_values THEN "" ELSE Strip(raw)

\* str(...).strip() of a cell of the edited table (no file in between).
CleanEdited(cell) == Strip(cell)

\* A faulty variant of PickRow: the first row of the category, whatever its
\* detail.
PickFirstRow(sub) == sub[1]

\* pick = sub_non_empty.iloc[0] if not sub_non_empty.empty else sub.iloc[0]
PickRow(sub) ==
    LET sub_non_empty == SelectSeq(sub, LAMBDA row : Len(row.detail) > 0)
    IN  IF sub_non_empty # <<>> THEN sub_non_empty[1] ELSE sub[1]

\* The reduced row of a category that has rows in df.
ReducedRow(df, cat) ==
    LET sub == SelectSeq(df, LAMBDA row : row.category = cat)
        pick == PickRow(sub)
    IN  [pillar |-> Strip(pick.pillar), category |-> cat, detail |-> Strip(pick.detail)]

\* The paths of load_mapping_df on which the default table is seeded: the
\* file is missing, holds no row, or has no category column.
SeedPaths == {"missing", "empty", "no_category"}

\* A faulty variant of WantedPresent: every wanted category has exactly one
\* row.
WantedPresentOnce(df) ==
    \A k \in 1..Len(wanted_cats) :
        Cardinality({i \in 1..Len(df) : df[i].category = wanted_cats[k]}) = 1

\* present = set(df["category"].dropna().unique().tolist());
\* set(wanted_cats).issubset(present)
WantedPresent(df) ==
    LET present == {df[i].category : i \in 1..Len(df)}
    IN  SeqToSet(wanted_cats) \subseteq present

\* load_mapping_df: the table returned, the file afterwards, and the path
\* taken (a seed path; "reset": a wanted category has no row; "reduce").
load_mapping_df(file) ==
    IF ~file.exists \/ file.rows = <<>> \/ "category" \notin file.columns
    THEN [df |-> default_mapping_df, file |-> to_csv(default_mapping_df),
          path |-> IF ~file.exists THEN "missing"
                   ELSE IF file.rows = <<>> THEN "empty" ELSE "no_category"]
    ELSE LET df == [i \in 1..Len(file.rows) |->
                      [col \in MappingColumns |->
                          IF col \in file.columns
                          THEN CleanCell(file.rows[i][col]) ELSE ""]]
         IN  IF ~WantedPresent(df)
             THEN [df |-> default_mapping_df, file |-> to_csv(default_mapping_df),
                   path |-> "reset"]
             ELSE LET df_reduced ==
                          [k \in 1..Len(wanted_cats) |-> ReducedRow(df, wanted_cats[k])]
                  IN  [df |-> df_reduced, file |-> to_csv(df_reduced), path |-> "reduce"]

\* save_mapping_df: the table written to the file.
save_mapping_df(df) ==
    LET stripped == [i \in 1..Len(df) |->
                       [col \in MappingColumns |-> CleanEdited(df[i][col])]]
        cleaned == SelectSeq(stripped, LAMBDA row : Len(row.category) > 0)
    IN  [k \in 1..Len(wanted_cats) |->
            LET cat == wanted_cats[k]
                sub == SelectSeq(cleaned, LAMBDA row : row.category = cat)
            IN  IF sub = <<>>
                THEN default_mapping_df[CHOOSE i \in 1..Len(default_mapping_df) :
                                           default_mapping_df[i].category = cat]
                ELSE ReducedRow(cleaned, cat)]


MappingRan(op, path, edited_df, saved) ==
    mapping_run' = [op |-> op, path |-> path, previous |-> mapping_run.path,
                    edited |-> edited_df, saved |-> saved]

\* A run of the screen without a button pressed: the table is loaded and shown.
RenderMapping ==
    /\ LET loaded == load_mapping_df(mapping_csv)
       IN  /\ mapping_csv' = loaded.file
           /\ mapping_df' = loaded.df
           /\ MappingRan("render", loaded.path, <<>>, <<>>)
    /\ UNCHANGED outside_mapping

\* What the curator types into a cell of the editor.
EditValues == {"", "N/A", "Obtained From", " Herkunft der Daten "}

\* The rows of the editor the curator types into.
EditRows == {1, 3}

\* "Speichern & Mindmap aktualisieren": the table is loaded and shown in the
\* editor, the curator has typed `value` into one cell (edited) or nothing,
\* the edited table is saved, and the script runs again and loads the file.
SaveMapping(edited, k, col, value) ==
    /\ LET loaded == load_mapping_df(mapping_csv)
           edited_df == IF edited THEN [loaded.df EXCEPT ![k][col] = value]
                        ELSE loaded.df
           out == save_mapping_df(edited_df)
           reloaded == load_mapping_df(to_csv(out))
       IN  /\ mapping_csv' = reloaded.file
           /\ mapping_df' = reloaded.df
           /\ MappingRan("save", reloaded.path, edited_df, out)
    /\ UNCHANGED outside_mapping

----------------------------------------------------------------------------
(* The text functions of the labeling screen (tabs/labeling_daniel.py) *)

\* sep.join(values)
RECURSIVE Join(_, _)
Join(sep, values) ==
    IF values = <<>> THEN ""
    ELSE IF Len(values) = 1 THEN values[1]
    ELSE values[1] \o sep \o Join(sep, Tail(values))

_strip_frontmatter(text) ==
    LET lines == SplitLines(text)
        non_empty == {i \in 1..Len(lines) : Strip(lines[i]) # ""}
    IN  IF lines = <<>> \/ non_empty = {} THEN text
        ELSE LET first_non_empty_idx == CHOOSE i \in non_empty : \A k \in non_empty : i <= k
                 closing == {j \in (first_non_empty_idx + 1)..Len(lines) :
                                Strip(lines[j]) = "---"}
             IN  IF Strip(lines[first_non_empty_idx]) # "---" \/ closing = {} THEN text
                 ELSE Join("\n", SubSeq(lines,
                                        (CHOOSE j \in closing : \A k \in closing : j <= k) + 1,
                                        Len(lines)))

\* text = _strip_frontmatter(raw_text)
StripFrontmatter ==
    /\ doc_op = "none"
    /\ doc_out' = _strip_frontmatter(doc_text)
    /\ doc_op' = "strip"
    /\ UNCHANGED <<doc_text, doc_pairs>>
    /\ UNCHANGED outside_readme

\* Characters of the regular expressions: \w, [a-z0-9] under (?i), quotes.
Digits == {"0", "1", "2", "3", "4", "5", "6", "7", "8", "9"}
AlnumChars ==
    {CharAt(UpperChars, k) : k \in 1..26} \cup {CharAt(LowerChars, k) : k \in 1..26}
    \cup Digits
WordChars == AlnumChars \cup {"_"}
Quotes == {"\"", "'"}

\* Characters below code 32 other than tab, newline and carriage return.
ControlChars == {"\f"}

\* The first index from i on whose character is not in chars (Len(s) + 1 when
\* there is none): where a greedy run chars* that starts at i ends.
RunEnd(s, i, chars) ==
    LET stops == {j \in i..Len(s) : CharAt(s, j) \notin chars}
    IN  IF stops = {} THEN Len(s) + 1 ELSE CHOOSE j \in stops : \A k \in stops : j <= k

\* The first index from i on whose character is in chars (0 when there is none).
Find(s, i, chars) ==
    LET hits == {j \in i..Len(s) : CharAt(s, j) \in chars}
    IN  IF hits = {} THEN 0 ELSE CHOOSE j \in hits : \A k \in hits : j <= k

\* The lower-case literal lit matches at i, ignoring case.
LitAt(s, i, lit) ==
    /\ i >= 1
    /\ i + Len(lit) - 1 <= Len(s)
    /\ Lower(SubSeq(s, i, i + Len(lit) - 1)) = lit

\* \b before index i
WordStart(s, i) ==
    /\ i <= Len(s)
    /\ CharAt(s, i) \in WordChars
    /\ i = 1 \/ CharAt(s, i - 1) \notin WordChars

EscapeChar(c) ==
    CASE c = "&" -> "&amp;"
      [] c = "<" -> "&lt;"
      [] c = ">" -> "&gt;"
      [] c = "\"" -> "&quot;"
      [] c = "'" -> "&#x27;"
      [] OTHER -> c

\* html.escape
RECURSIVE HtmlEscape(_)
HtmlEscape(s) ==
    IF s = "" THEN "" ELSE EscapeChar(CharAt(s, 1)) \o HtmlEscape(SubSeq(s, 2, Len(s)))

\* The loop that drops control characters.
RECURSIVE RemoveControlChars(_)
RemoveControlChars(s) ==
    IF s = "" THEN ""
    ELSE (IF CharAt(s, 1) \in ControlChars THEN "" ELSE CharAt(s, 1))
         \o RemoveControlChars(SubSeq(s, 2, Len(s)))

_sanitize_text_for_html(text) == HtmlEscape(RemoveControlChars(text))

_ALLOWED_TAGS ==
    {"p", "br", "strong", "em", "b", "i", "u",
     "a", "ul", "ol", "li",
     "code", "pre", "blockquote",
     "h1", "h2", "h3", "h4", "h5", "h6",
     "table", "thead", "tbody", "tr", "td", "th",
     "sup", "sub"}

\* Each regular expression is a function from a start index to the last index
\* of its match there (0: no match at that index); re.sub replaces the
\* leftmost matches from left to right and does not rescan a replacement.

\* <\s*/\s*name\s*> at c
CloseTagEnd(s, c, name) ==
    IF c > Len(s) \/ CharAt(s, c) # "<" THEN 0
    ELSE LET slash == RunEnd(s, c + 1, Whitespace)
         IN  IF slash > Len(s) \/ CharAt(s, slash) # "/" THEN 0
             ELSE LET n == RunEnd(s, slash + 1, Whitespace)
                      gt == RunEnd(s, n + Len(name), Whitespace)
                  IN  IF LitAt(s, n, name) /\ gt <= Len(s) /\ CharAt(s, gt) = ">"
                      THEN gt ELSE 0

\* (?is)<\s*(script|style)\b[^>]*>.*?<\s*/\s*\1\s*>
ScriptEnd(s, i) ==
    IF CharAt(s, i) # "<" THEN 0
    ELSE LET n == RunEnd(s, i + 1, Whitespace)
             name == IF LitAt(s, n, "script") THEN "script"
                     ELSE IF LitAt(s, n, "style") THEN "style" ELSE ""
             after == n + Len(name)
             gt == Find(s, after, {">"})
             closes == {c \in (gt + 1)..Len(s) : CloseTagEnd(s, c, name) > 0}
         IN  IF name = "" \/ (after <= Len(s) /\ CharAt(s, after) \in WordChars)
                \/ gt = 0 \/ closes = {}
             THEN 0
             ELSE CloseTagEnd(s, CHOOSE c \in closes : \A k \in closes : c <= k, name)

\* ("[^"]*"|'[^']*'|[^\s>]+) at v
HandlerValueEnd(s, v) ==
    IF v > Len(s) THEN 0
    ELSE IF CharAt(s, v) \in Quotes /\ Find(s, v + 1, {CharAt(s, v)}) > 0
    THEN Find(s, v + 1, {CharAt(s, v)})
    ELSE LET stop == Find(s, v, Whitespace \cup {">"})
             last == IF stop = 0 THEN Len(s) ELSE stop - 1
         IN  IF last < v THEN 0 ELSE last

\* (?i)\s+on\w+\s*=\s*("[^"]*"|'[^']*'|[^\s>]+)
HandlerEnd(s, i) ==
    IF CharAt(s, i) \notin Whitespace THEN 0
    ELSE LET on == RunEnd(s, i, Whitespace)
             word == RunEnd(s, on + 2, WordChars)
             eq == RunEnd(s, word, Whitespace)
         IN  IF ~LitAt(s, on, "on") \/ word = on + 2 \/ eq > Len(s) THEN 0
             ELSE IF CharAt(s, eq) # "=" THEN 0
             ELSE HandlerValueEnd(s, RunEnd(s, eq + 1, Whitespace))

\* (?i)\b(href|src)\s*=\s*(['\"])javascript:[^'\"]*\2 : [end, repl], the last
\* index of the match and its replacement \1=\2#\2
JavascriptUrl(s, i) ==
    LET len == IF LitAt(s, i, "href") THEN 4 ELSE IF LitAt(s, i, "src") THEN 3 ELSE 0
        eq == RunEnd(s, i + len, Whitespace)
        quote == RunEnd(s, eq + 1, Whitespace)
        close == Find(s, quote + 12, Quotes)
    IN  IF /\ WordStart(s, i)
           /\ len > 0
           /\ eq <= Len(s)
           /\ CharAt(s, eq) = "="
           /\ quote <= Len(s)
           /\ CharAt(s, quote) \in Quotes
           /\ LitAt(s, quote + 1, "javascript:")
           /\ close > 0
           /\ CharAt(s, close) = CharAt(s, quote)
        THEN [end |-> close,
              repl |-> SubSeq(s, i, i + len - 1) \o "=" \o CharAt(s, quote) \o "#"
                       \o CharAt(s, quote)]
        ELSE [end |-> 0, repl |-> ""]

\* (?is)<[^>]+>
TagEnd(s, i) ==
    IF CharAt(s, i) = "<" /\ i < Len(s) /\ CharAt(s, i + 1) # ">"
    THEN Find(s, i + 1, {">"}) ELSE 0

\* _filter_tag: re.match(r"(?is)<\s*/?\s*([a-z0-9]+)", tag)
_filter_tag(tag) ==
    LET slash == RunEnd(tag, 2, Whitespace)
        start == IF slash <= Len(tag) /\ CharAt(tag, slash) = "/"
                 THEN RunEnd(tag, slash + 1, Whitespace) ELSE slash
        stop == RunEnd(tag, start, AlnumChars)
    IN  IF stop = start THEN HtmlEscape(tag)
        ELSE IF Lower(SubSeq(tag, start, stop - 1)) \in _ALLOWED_TAGS THEN tag
        ELSE HtmlEscape(tag)

\* (?is)<\s*([a-z0-9]+)\b[^>]*> : [end, name], the last index of the match
\* and group 1
OpenTag(s, i) ==
    LET start == RunEnd(s, i + 1, Whitespace)
        stop == RunEnd(s, start, AlnumChars)
        gt == Find(s, stop, {">"})
    IN  IF /\ CharAt(s, i) = "<"
           /\ stop > start
           /\ stop <= Len(s)
           /\ CharAt(s, stop) \notin WordChars
           /\ gt > 0
        THEN [end |-> gt, name |-> SubSeq(s, start, stop - 1)]
        ELSE [end |-> 0, name |-> ""]

\* re.search(r'(?i)\battr\s*=\s*(".*?"|\'.*?\')', full): group 1 of the first
\* match, "" when there is none (the dot does not match a newline)
QuotedAttr(full, attr) ==
    LET ValueAt(p) ==
            LET eq == RunEnd(full, p + Len(attr), Whitespace)
                quote == RunEnd(full, eq + 1, Whitespace)
                close == Find(full, quote + 1, {CharAt(full, quote)})
            IN  IF /\ WordStart(full, p)
                   /\ LitAt(full, p, attr)
                   /\ eq <= Len(full)
                   /\ CharAt(full, eq) = "="
                   /\ quote <= Len(full)
                   /\ CharAt(full, quote) \in Quotes
                   /\ close > 0
                   /\ \A k \in (quote + 1)..(close - 1) : CharAt(full, k) # "\n"
                THEN SubSeq(full, quote, close) ELSE ""
        matches == {p \in 1..Len(full) : ValueAt(p) # ""}
    IN  IF matches = {} THEN ""
        ELSE ValueAt(CHOOSE p \in matches : \A k \in matches : p <= k)

\* _strip_attrs, for an opening tag
_strip_attrs(full, name) ==
    IF Lower(name) = "a"
    THEN LET href_m == QuotedAttr(full, "href")
             title_m == QuotedAttr(full, "title")
         IN  "<a" \o (IF href_m # "" THEN " href=" \o href_m ELSE "")
                  \o (IF title_m # "" THEN " title=" \o title_m ELSE "")
                  \o " target=\"_blank\"" \o " rel=\"noopener noreferrer\"" \o ">"
    ELSE "<" \o Lower(name) \o ">"

\* The five substitutions of _sanitize_html_basic, from index i on.
RECURSIVE RemoveScripts(_, _)
RemoveScripts(s, i) ==
    IF i > Len(s) THEN ""
    ELSE IF ScriptEnd(s, i) > 0 THEN RemoveScripts(s, ScriptEnd(s, i) + 1)
    ELSE CharAt(s, i) \o RemoveScripts(s, i + 1)

RECURSIVE RemoveHandlers(_, _)
RemoveHandlers(s, i) ==
    IF i > Len(s) THEN ""
    ELSE IF HandlerEnd(s, i) > 0 THEN RemoveHandlers(s, HandlerEnd(s, i) + 1)
    ELSE CharAt(s, i) \o RemoveHandlers(s, i + 1)

RECURSIVE NeutralizeJavascript(_, _)
NeutralizeJavascript(s, i) ==
    IF i > Len(s) THEN ""
    ELSE LET m == JavascriptUrl(s, i)
         IN  IF m.end > 0 THEN m.repl \o NeutralizeJavascript(s, m.end + 1)
             ELSE CharAt(s, i) \o NeutralizeJavascript(s, i + 1)

RECURSIVE FilterTags(_, _)
FilterTags(s, i) ==
    IF i > Len(s) THEN ""
    ELSE IF TagEnd(s, i) > 0
    THEN _filter_tag(SubSeq(s, i, TagEnd(s, i))) \o FilterTags(s, TagEnd(s, i) + 1)
    ELSE CharAt(s, i) \o FilterTags(s, i + 1)

RECURSIVE StripAttrs(_, _)
StripAttrs(s, i) ==
    IF i > Len(s) THEN ""
    ELSE LET m == OpenTag(s, i)
         IN  IF m.end > 0
             THEN _strip_attrs(SubSeq(s, i, m.end), m.name) \o StripAttrs(s, m.end + 1)
             ELSE CharAt(s, i) \o StripAttrs(s, i + 1)

_sanitize_html_basic(raw_html) ==
    LET s1 == RemoveScripts(raw_html, 1)
        s2 == RemoveHandlers(s1, 1)
        s3 == NeutralizeJavascript(s2, 1)
        s4 == FilterTags(s3, 1)
        s5 == StripAttrs(s4, 1)
    IN  RemoveControlChars(s5)

\* safe_html = _sanitize_html_basic(decoded)
SanitizeHtml ==
    /\ doc_op = "none"
    /\ doc_out' = _sanitize_html_basic(doc_text)
    /\ doc_op' = "sanitize"
    /\ UNCHANGED <<doc_text, doc_pairs>>
    /\ UNCHANGED outside_readme

\* sorted(kw_color_pairs, key=lambda x: len(x["keyword"]), reverse=True): the
\* longest keyword first, pairs of equal length in their original order.
RECURSIVE SortedPairs(_)
SortedPairs(pairs) ==
    IF pairs = <<>> THEN <<>>
    ELSE LET longest == {k \in 1..Len(pairs) :
                            \A j \in 1..Len(pairs) :
                               Len(pairs[j].keyword) <= Len(pairs[k].keyword)}
             first == CHOOSE k \in longest : \A j \in longest : k <= j
         IN  <<pairs[first]>>
             \o SortedPairs(SubSeq(pairs, 1, first - 1)
                            \o SubSeq(pairs, first + 1, Len(pairs)))

\* repl(match)
Marker(color, matched) ==
    "<mark style='background-color:" \o color \o "; padding:0 2px;'>"
    \o matched \o "</mark>"

\* pattern.sub(repl, highlighted) from index i on: the occurrences of the
\* pattern from left to right, letter case ignored, none overlapping another.
RECURSIVE Replace(_, _, _, _)
Replace(highlighted, i, pattern, color) ==
    IF i > Len(highlighted) THEN ""
    ELSE IF LitAt(highlighted, i, Lower(pattern))
         THEN Marker(color, SubSeq(highlighted, i, i + Len(pattern) - 1))
              \o Replace(highlighted, i + Len(pattern), pattern, color)
         ELSE CharAt(highlighted, i) \o Replace(highlighted, i + 1, pattern, color)

\* The loop over sorted_pairs: every keyword is searched in the text as the
\* keywords before it left it, markers included.
RECURSIVE HighlightPairs(_, _)
HighlightPairs(highlighted, sorted_pairs) ==
    IF sorted_pairs = <<>> THEN highlighted
    ELSE LET pair == Head(sorted_pairs)
         IN  HighlightPairs(IF pair.keyword = "" THEN highlighted
                            ELSE Replace(highlighted, 1, HtmlEscape(pair.keyword),
                                         pair.color),
                            Tail(sorted_pairs))

_highlight_keywords_multi(text, kw_color_pairs) ==
    HighlightPairs(_sanitize_text_for_html(text), SortedPairs(kw_color_pairs))

\* marked_text = _highlight_keywords_multi(text, kw_color_pairs)
Highlight ==
    /\ doc_op = "none"
    /\ doc_out' = _highlight_keywords_multi(doc_text, doc_pairs)
    /\ doc_op' = "highlight"
    /\ UNCHANGED <<doc_text, doc_pairs>>
    /\ UNCHANGED outside_readme

----------------------------------------------------------------------------
(* Specifications *)

\* The corpus folder holds the file of every plan row, or of all but the last.
AllFiles == {PlanRow(d).filename : d \in DocIds}
IndexChoices == {AllFiles, AllFiles \ {PlanRow(NumDocs).filename}}

\* Every session has run once: it copied the plan and loaded the skip file.
InitLabeling ==
    /\ \E order \in PlanOrders : label_csv = [i \in 1..NumDocs |-> PlanRow(order[i])]
    /\ skipped_csv = <<>>
    /\ readme_index \in IndexChoices
    /\ df_plan = [s \in Sessions |-> label_csv]
    /\ df_dirty = [s \in Sessions |-> FALSE]
    /\ labelplan_version = [s \in Sessions |-> 0]
    /\ skipped_cache = [s \in Sessions |-> <<>>]
    /\ manual_doc_index = [s \in Sessions |-> None]
    /\ upload_pc = [s \in Sessions |-> "idle"]
    /\ df_remote = [s \in Sessions |-> <<>>]
    /\ runs = 0
    /\ skip_presses = [d \in DocIds |-> 0]
    /\ last_run = [s \in Sessions |->
                     [run |-> 0, op |-> "none", banner |-> "none", widgets |-> NoWidgets]]
    /\ uploaded = [s \in Sessions |-> [d \in DocIds |-> [col \in PlanColumns |-> NaN]]]

vars == <<labeling_vars, control_vars, registry_vars, mapping_vars, readme_vars>>

\* The plan in doc_index order, every file found.
InitLabelingDefault ==
    /\ InitLabeling
    /\ readme_index = AllFiles
    /\ \A i \in 1..Len(label_csv) : label_csv[i].doc_index = i - 1

InitControlDefault ==
    /\ ctl_cat = "Data Provenance"
    /\ ctl_existing = NaN
    /\ ctl_options = <<>>
    /\ ctl_default = UNSET
    /\ ctl_choice = ""
    /\ ctl_parsed = None
    /\ control_pc = "start"

NoRegistryRun == [op |-> "none", selected_name |-> "", name |-> "",
                  form |-> NoForm, messages |-> {},
                  wrote |-> FALSE]

InitRegistryDefault ==
    /\ categories_json = [is_dict |-> TRUE, data |-> EmptyDict]
    /\ categories = EmptyDict
    /\ registry_run = NoRegistryRun

NoMappingRun ==
    [op |-> "none", path |-> "none", previous |-> "none", edited |-> <<>>, saved |-> <<>>]

\* The mapping screen has not run; the file does not exist yet.
InitMappingDefault ==
    /\ mapping_csv = MissingFile
    /\ mapping_df = <<>>
    /\ mapping_run = NoMappingRun

\* No document is shown.
InitReadmeDefault ==
    /\ doc_text = ""
    /\ doc_pairs = <<>>
    /\ doc_out = ""
    /\ doc_op = "none"

Init ==
    /\ InitLabeling
    /\ InitControlDefault
    /\ InitRegistryDefault
    /\ InitMappingDefault
    /\ InitReadmeDefault

\* One session of the annotator and the other annotator; the plan is found
\* when the session loads it again (SpecUpload follows the failing request).
Next ==
    \/ \E w \in WidgetChoices : Save("A", w)
    \/ Skip("A")
    \/ \E k \in 0..(NumDocs - 1) : Jump("A", k)
    \/ ReloadPlan("A", TRUE)
    \/ \E ok \in BOOLEAN : UploadRead("A", ok)
    \/ \E ok \in BOOLEAN : UploadWrite("A", ok)
    \/ \E d \in DocIds, v \in ForeignLabels : OtherAnnotatorUpload(d, v)

Spec == Init /\ [][Next]_vars

\* Two sessions of the annotator, saving and uploading.  Each
\* labels the category Data Provenance and leaves the other control unset.
RaceChoices ==
    {w \in WidgetChoices : \A cat \in PlanCategories \ {"Data Provenance"} : w[cat] = UNSET}

NextRace ==
    \E s \in Sessions :
        \/ \E w \in RaceChoices : Save(s, w)
        \/ \E ok \in BOOLEAN : UploadRead(s, ok)
        \/ \E ok \in BOOLEAN : UploadWrite(s, ok)

\* The race is followed on a plan in doc_index order whose files are all found.
InitRace ==
    /\ InitLabelingDefault
    /\ InitControlDefault
    /\ InitRegistryDefault
    /\ InitMappingDefault
    /\ InitReadmeDefault

SpecRace == InitRace /\ [][NextRace]_vars

\* One session that saves, uploads and reloads while requests to Drive fail and
\* another writer may replace the plan file.
NextUpload ==
    \/ \E w \in RaceChoices : Save("A", w)
    \/ \E ok \in BOOLEAN : UploadRead("A", ok)
    \/ \E ok \in BOOLEAN : UploadWrite("A", ok)
    \/ \E ok \in BOOLEAN : ReloadPlan("A", ok)
    \/ Skip("A")
    \/ OtherWriterDropsDocId

SpecUpload == InitRace /\ [][NextUpload]_vars

\* The label cells of a plan row as earlier sessions left them: empty, a label
\* of the other annotator only, a blank string, a label in one column of the
\* annotator (the label 0 too).
RowCells ==
    LET empty == [col \in PlanColumns |-> NaN]
    IN  { empty,
          [empty EXCEPT !["Marie__Data Provenance"] = 2],
          [empty EXCEPT !["Daniel__Data Provenance"] = BlankCell],
          [empty EXCEPT !["Daniel__Data Provenance"] = 1],
          [empty EXCEPT !["Daniel__Bias and Fairness Disclosure"] = 0] }

\* The skip file as earlier sessions left it: empty, or with document 1.
SkipFiles == { <<>>, <<[doc_id |-> 1, filename |-> PlanRow(1).filename]>> }

\* A session that opens a plan and a skip file earlier sessions worked on, with
\* two runs to follow.
InitProgressPlan ==
    /\ \E order \in PlanOrders, filled \in [DocIds -> RowCells] :
          label_csv = [i \in 1..NumDocs |->
                         [PlanRow(order[i]) EXCEPT !.cells = filled[order[i]]]]
    /\ skipped_csv \in SkipFiles
    /\ readme_index = AllFiles
    /\ df_plan = [s \in Sessions |-> label_csv]
    /\ df_dirty = [s \in Sessions |-> FALSE]
    /\ labelplan_version = [s \in Sessions |-> 0]
    /\ skipped_cache = [s \in Sessions |->
                          [i \in 1..Len(skipped_csv) |-> skipped_csv[i].doc_id]]
    /\ manual_doc_index = [s \in Sessions |-> None]
    /\ upload_pc = [s \in Sessions |-> "idle"]
    /\ df_remote = [s \in Sessions |-> <<>>]
    /\ runs = MaxRuns - 2
    /\ skip_presses = [d \in DocIds |-> 0]
    /\ last_run = [s \in Sessions |->
                     [run |-> 0, op |-> "none", banner |-> "none", widgets |-> NoWidgets]]
    /\ uploaded = [s \in Sessions |-> [d \in DocIds |-> [col \in PlanColumns |-> NaN]]]

InitProgress ==
    /\ InitProgressPlan
    /\ InitControlDefault
    /\ InitRegistryDefault
    /\ InitMappingDefault
    /\ InitReadmeDefault

NextProgress ==
    \/ \E w \in WidgetChoices : Save("A", w)
    \/ Skip("A")
    \/ \E k \in 0..(NumDocs - 1) : Jump("A", k)

SpecProgress == InitProgress /\ [][NextProgress]_vars

\* One label control, for every category name and every cell value.
InitControl ==
    /\ ctl_cat \in CategoryNames
    /\ ctl_existing \in CellValues
    /\ ctl_options = <<>>
    /\ ctl_default = UNSET
    /\ ctl_choice = ""
    /\ ctl_parsed = None
    /\ control_pc = "start"

InitLabels ==
    /\ InitLabelingDefault
    /\ InitControl
    /\ InitRegistryDefault
    /\ InitMappingDefault
    /\ InitReadmeDefault

NextLabels ==
    \/ ShowControl
    \/ \E c \in Choices : SelectOption(c)
    \/ SaveControl

SpecLabels == InitLabels /\ [][NextLabels]_vars

\* The registry screen: the file holds no category, one, two (written by the
\* screen, or one of them not), or no dict.
InitialRegistries ==
    LET first == CHOOSE form \in FormInputs : form.label_unit = "sentence"
        second == CHOOSE form \in FormInputs : form.label_unit = "document"
    IN  { EmptyDict,
          DictSet(EmptyDict, "Data_Source", PayloadOf[first]),
          DictSet(DictSet(EmptyDict, "Data_Source", PayloadOf[first]),
                  "Synthetic_Ethics", OlderRecord),
          DictSet(DictSet(EmptyDict, "Data_Source", PayloadOf[first]),
                  "Synthetic_Disclosure", PayloadOf[second]) }

InitRegistry ==
    /\ categories_json \in {[is_dict |-> TRUE, data |-> d] : d \in InitialRegistries}
                           \cup {[is_dict |-> FALSE, data |-> EmptyDict]}
    /\ categories = _load_categories(categories_json, TRUE)
    /\ registry_run = NoRegistryRun

InitCategories ==
    /\ InitLabelingDefault
    /\ InitControlDefault
    /\ InitRegistry
    /\ InitMappingDefault
    /\ InitReadmeDefault

NextCategories ==
    \/ \E load_ok \in BOOLEAN : RenderRegistry(load_ok)
    \/ \E new_name \in NameInputs, form \in FormInputs, load_ok, save_ok, reload_ok \in BOOLEAN :
          CreateCategory(new_name, form, load_ok, save_ok, reload_ok)
    \/ \E selected_name \in RegistryNames, edit_name \in NameInputs, edited \in BOOLEAN,
          typed \in FormInputs, save_ok, reload_ok \in BOOLEAN :
          UpdateCategory(selected_name, edit_name, edited, typed, save_ok, reload_ok)
    \/ \E selected_name \in RegistryNames, save_ok, reload_ok \in BOOLEAN :
          DeleteCategory(selected_name, save_ok, reload_ok)

SpecCategories == InitCategories /\ [][NextCategories]_vars

\* The mapping screen.  The file holds the rows of the five other categories
\* as seeded, and for Data Provenance up to MaxDup of these rows, in any order,
\* some before and some after the other rows.
MaxDup == 3

DupPool ==
    { [pillar |-> "Art. 10(2)(b)", category |-> "Data Provenance", detail |-> ""],
      [pillar |-> " Art. 10 ", category |-> " Data Provenance ",
       detail |-> " Herkunft der Daten "],
      [pillar |-> "Art. 10(2)", category |-> "Data Provenance",
       detail |-> "Quelle des Datensatzes"],
      [pillar |-> "", category |-> "Data Provenance", detail |-> "N/A"] }

DupOrders ==
    {q \in UNION {[1..n -> DupPool] : n \in 1..MaxDup} :
        \A i, j \in 1..Len(q) : i # j => q[i] # q[j]}

OtherRows == Tail(default_mapping_df)

\* A row of a category that is not one of wanted_cats.
UnknownRow == [pillar |-> "Art. 13", category |-> "Transparency", detail |-> "Hinweise"]

\* Files somebody else wrote, or this screen while it ran: no file, a header
\* only, a header without the category or the detail column, a file without a
\* row for the last category, the seeded table, a saved table with a pillar
\* "N/A", the seeded table after a row of an unknown category, and the files
\* with several Data Provenance rows.
MappingFiles ==
    { MissingFile,
      [exists |-> TRUE, columns |-> MappingColumns, rows |-> <<>>],
      [exists |-> TRUE, columns |-> {"pillar", "detail"},
       rows |-> [i \in 1..Len(default_mapping_df) |->
                   [default_mapping_df[i] EXCEPT !.category = ""]]],
      [exists |-> TRUE, columns |-> {"pillar", "category"},
       rows |-> [i \in 1..Len(default_mapping_df) |->
                   [default_mapping_df[i] EXCEPT !.detail = ""]]],
      to_csv(SubSeq(default_mapping_df, 1, Len(default_mapping_df) - 1)),
      to_csv(default_mapping_df),
      to_csv([default_mapping_df EXCEPT ![1].pillar = "N/A"]),
      to_csv(<<UnknownRow>> \o default_mapping_df) }
    \cup UNION { { to_csv(SubSeq(q, 1, k) \o OtherRows \o SubSeq(q, k + 1, Len(q))) :
                      k \in 0..Len(q) } : q \in DupOrders }

InitMappingFile ==
    /\ mapping_csv \in MappingFiles
    /\ mapping_df = <<>>
    /\ mapping_run = NoMappingRun

InitMapping ==
    /\ InitLabelingDefault
    /\ InitControlDefault
    /\ InitRegistryDefault
    /\ InitMappingFile
    /\ InitReadmeDefault

NextMapping ==
    \/ RenderMapping
    \/ \E k \in EditRows, col \in MappingColumns, value \in EditValues :
          SaveMapping(TRUE, k, col, value)
    \/ SaveMapping(FALSE, 1, "pillar", "")

SpecMapping == InitMapping /\ [][NextMapping]_vars

\* The text functions, each applied once to a document.  Documents with a
\* metadata header: an optional lead, an opening line, a key, a closing line
\* and a body, with "\n" or "\r\n" line ends.
FrontmatterDocs ==
    { lead \o open \o nl \o "title: x" \o nl \o close \o nl \o body :
        lead \in {"", "\n", "intro\n"},
        open \in {"---", " --- ", "----"},
        nl \in {"\n", "\r\n"},
        close \in {"---", "--- ", "- - -"},
        body \in {"", "Body", "Body\n", "A\r\n---\nB"} }

\* Documents with one element: a tag name, attributes, a text and the closing
\* tag; and some others.
TagNames == {"a", "A", "p", "pre_x", "script", "img"}

AttrTexts ==
    { "",
      " href=\"javascript:alert(1)\"",
      " href=\"javascript:alert('x')\"",
      " href='javascript:alert(1)'",
      " href=javascript:alert(1)",
      " HREF = \"JavaScript:x\"",
      " onclick=\"x\"",
      "/onclick=x",
      " class=\"c\" id=x",
      " href=\"https://a.b\" title='t'",
      " href=\"#\"onclick=x" }

HtmlDocs ==
    { "<" \o name \o attr \o ">x</" \o name \o ">" : name \in TagNames, attr \in AttrTexts }
    \cup { "<script>alert(1)</script>",
           "<script>alert(1)",
           "<p>a</p>< style >x</ STYLE >b",
           "a < b > c",
           "<p>a\fb</p>",
           "<>",
           "<p" }

\* color_palette[0], color_palette[1]
Colors == {"#ffe58a", "#ffcccc"}

\* Keywords of the registry, one a part of the other, one with a character
\* that html.escape rewrites, and the empty keyword.
Keywords == {"bias", "bias analysis", "Analysis", "R&D", ""}

MaxPairs == 2

KeywordPairs ==
    LET pair == [keyword : Keywords, color : Colors]
    IN  UNION { [1..n -> pair] : n \in 0..MaxPairs }

PlainDocs ==
    { "Bias Analysis",
      "We ran a bias analysis of the corpus.",
      "bias analysis and bias",
      "Bias in R&D data",
      "analysis of a < b",
      "no keyword here" }

DocInputs ==
    { <<text, <<>> >> :
        text \in FrontmatterDocs \cup {"", "\n\n", "---", "---\n---"} \cup HtmlDocs }
    \cup (PlainDocs \X KeywordPairs)

InitReadmeInputs ==
    /\ \E input \in DocInputs : doc_text = input[1] /\ doc_pairs = input[2]
    /\ doc_out = ""
    /\ doc_op = "none"

InitReadme ==
    /\ InitLabelingDefault
    /\ InitControlDefault
    /\ InitRegistryDefault
    /\ InitMappingDefault
    /\ InitReadmeInputs

NextReadme ==
    \/ StripFrontmatter
    \/ SanitizeHtml
    \/ Highlight

SpecReadme == InitReadme /\ [][NextReadme]_vars

----------------------------------------------------------------------------
(* Properties *)

IsDanielColumn(col) == StartsWith(col, "Daniel__")

UploadSucceeded(s) == last_run[s].op = "upload" /\ last_run[s].banner = "success"

\* The run of session s that ends in this step is a successful upload.
UploadSuccessStep(s) ==
    upload_pc[s] = "merge" /\ labelplan_version'[s] = labelplan_version[s] + 1

\* C1: a successful upload leaves, on every row whose doc_id the plan read at
\* the start of the upload and the working copy share, all columns that do not
\* start with Daniel__ (and doc_index, filename) as they were in the plan read,
\* and puts the set cells of the working copy into the Daniel__ columns.
C1_TargetedMerge ==
    [][\A s \in Sessions :
        UploadSuccessStep(s) =>
            /\ Len(label_csv') = Len(df_remote[s])
            /\ \A i \in 1..Len(df_remote[s]) :
                 HasDocId(df_plan[s], df_remote[s][i].doc_id) =>
                    /\ label_csv'[i].doc_id = df_remote[s][i].doc_id
                    /\ label_csv'[i].doc_index = df_remote[s][i].doc_index
                    /\ label_csv'[i].filename = df_remote[s][i].filename
                    /\ \A col \in PlanColumns :
                         IF IsDanielColumn(col)
                         THEN LET local == RowOfDocId(df_plan[s], df_remote[s][i].doc_id).cells[col]
                              IN  local # NaN => label_csv'[i].cells[col] = local
                         ELSE label_csv'[i].cells[col] = df_remote[s][i].cells[col]
    ]_vars

\* C1 witness: session A has uploaded; a row of the remote plan holds the other
\* annotator's label, which A's working copy does not have, next to A's label.
C1_Witness ==
    /\ UploadSucceeded("A")
    /\ \E i \in 1..Len(label_csv) :
         LET local == RowOfDocId(df_plan["A"], label_csv[i].doc_id).cells
         IN  /\ label_csv[i].cells["Marie__Data Provenance"] = 2
             /\ local["Marie__Data Provenance"] = NaN
             /\ local["Daniel__Data Provenance"] # NaN
             /\ label_csv[i].cells["Daniel__Data Provenance"] = local["Daniel__Data Provenance"]

CellOf(df, d, col) == RowOfDocId(df, d).cells[col]

\* A label that session s uploaded successfully is not in the remote plan.
LabelLost(s) ==
    \E d \in DocIds, col \in PlanColumns :
        uploaded[s][d][col] # NaN /\ CellOf(label_csv, d, col) # uploaded[s][d][col]

\* C2: with two sessions of the annotator, a label one session uploaded leaves
\* the remote plan only by a successful upload of the other session (nothing
\* locks the file between its read and its write), which shows success, while the
\* screen of the session that loses the label shows nothing new; the witness is
\* the interleaving in which that happens.
C2_LossIsSilent ==
    [][\A s \in Sessions :
        (~LabelLost(s) /\ LabelLost(s)') =>
            \E t \in Sessions \ {s} :
                /\ UploadSuccessStep(t)
                /\ UploadSucceeded(t)'
                /\ last_run'[s] = last_run[s]
    ]_vars

\* C2 witness: a cell session A uploaded is empty in the remote plan again, after
\* an upload of session B that succeeded; no session's screen shows an error.
C2_Witness ==
    /\ \E d \in DocIds, col \in PlanColumns :
         uploaded["A"][d][col] # NaN /\ CellOf(label_csv, d, col) = NaN
    /\ UploadSucceeded("B")
    /\ \A t \in Sessions : last_run[t].banner # "error"

\* The step is a run of session s that took one of the branches `ops`.
RunOf(s, ops) == runs' = runs + 1 /\ last_run'[s].run = runs' /\ last_run'[s].op \in ops

\* The definition of done, on the document: skipped, or a label of the annotator.
DocDone(s, d) ==
    \/ \E i \in 1..Len(skipped_cache[s]) : skipped_cache[s][i] = d
    \/ \E col \in PlanColumns : IsDanielColumn(col) /\ CellOf(df_plan[s], d, col) # NaN

AllRowsDone(s) == \A i \in 1..Len(df_plan[s]) : DocDone(s, df_plan[s][i].doc_id)

\* C3: a save or a skip never lowers the done count of _compute_progress; and
\* when every row of the plan is done, _find_next_doc_index gives -1 and the
\* screen shows the completion message.
C3_ProgressAndCompletion ==
    /\ [](\A s \in Sessions :
            AllRowsDone(s) =>
                /\ Progress(s).done_docs = Len(df_plan[s])
                /\ _find_next_doc_index(df_plan[s], Progress(s).done_mask) = -1
                /\ Screen(s) = "complete")
    /\ [][\A s \in Sessions :
            RunOf(s, {"save", "skip"}) =>
                Progress(s)'.done_docs >= Progress(s).done_docs]_vars

\* C3 witness: session A saved or skipped its way through all rows.
C3_Witness ==
    /\ last_run["A"].op \in {"save", "skip"}
    /\ AllRowsDone("A")
    /\ Progress("A").done_docs = NumDocs
    /\ Screen("A") = "complete"

SmallestUndoneIndex(s) ==
    LET undone == {df_plan[s][i].doc_index : i \in {j \in 1..Len(df_plan[s]) :
                                                      ~DocDone(s, df_plan[s][j].doc_id)}}
    IN  IF undone = {} THEN -1 ELSE CHOOSE k \in undone : \A m \in undone : k <= m

\* C5: without a manual jump the current document is the undone row
\* with the smallest doc_index, whatever the physical row order of the plan.
C5_NextIsSmallestUndone ==
    \A s \in Sessions :
        manual_doc_index[s] = None => CurrentIndex(s) = SmallestUndoneIndex(s)

\* The integer the docstring of _parse_label_choice gives for an option, of a
\* category with three values and of one with two.
DocumentedCode(ternary, option) ==
    IF ternary
    THEN CASE option = SUFFICIENT -> 2 [] option = UNCLEAR -> 1 [] option = INSUFFICIENT -> 0
    ELSE CASE option = SUFFICIENT -> 1 [] option = INSUFFICIENT -> 0

\* C6: a save writes, into the current row of the working copy, the code of each
\* category whose control is not unset, and nothing else: the cells of unset
\* categories, the other rows, the columns of other annotators, doc_id,
\* doc_index and filename stay, and neither the remote plan nor the skip file
\* nor another session's working copy is written.
C6_SaveFrame ==
    [][\A s \in Sessions :
        (RunOf(s, {"save"}) /\ last_run'[s].banner = "success") =>
            LET w == last_run'[s].widgets
                d == CurrentRow(s).doc_id
            IN  /\ label_csv' = label_csv
                /\ skipped_csv' = skipped_csv
                /\ \A t \in Sessions \ {s} : df_plan'[t] = df_plan[t]
                /\ Len(df_plan'[s]) = Len(df_plan[s])
                /\ \A i \in 1..Len(df_plan[s]) :
                     /\ df_plan'[s][i].doc_id = df_plan[s][i].doc_id
                     /\ df_plan'[s][i].doc_index = df_plan[s][i].doc_index
                     /\ df_plan'[s][i].filename = df_plan[s][i].filename
                     /\ \A col \in PlanColumns :
                          IF /\ df_plan[s][i].doc_id = d
                             /\ \E cat \in PlanCategories :
                                  col = ANNOTATOR_PREFIX \o cat /\ w[cat] # UNSET
                          THEN \A cat \in PlanCategories :
                                  col = ANNOTATOR_PREFIX \o cat =>
                                     df_plan'[s][i].cells[col] =
                                        DocumentedCode(cat = "Data Provenance", w[cat])
                          ELSE df_plan'[s][i].cells[col] = df_plan[s][i].cells[col]
    ]_vars

\* C6 witness: the last save of session A set only "Bias and Fairness
\* Disclosure"; its row still holds the "Data Provenance" label of an earlier
\* save, and no other row has a "Bias and Fairness Disclosure" label.
C6_Witness ==
    /\ last_run["A"].op = "save" /\ last_run["A"].banner = "success"
    /\ last_run["A"].widgets["Data Provenance"] = UNSET
    /\ last_run["A"].widgets["Bias and Fairness Disclosure"] = SUFFICIENT
    /\ \E i \in 1..Len(df_plan["A"]) :
         /\ df_plan["A"][i].cells["Daniel__Bias and Fairness Disclosure"] = 1
         /\ df_plan["A"][i].cells["Daniel__Data Provenance"] = 0
         /\ \A j \in 1..Len(df_plan["A"]) :
              j # i => df_plan["A"][j].cells["Daniel__Bias and Fairness Disclosure"] = NaN

ThreeValuedNames ==
    { "Data Provenance",
      "  Data Provenance ",
      "DATA PROVENANCE",
      "Data Preparation and Processing",
      "Data Preparation & Processing",
      "Data Preparation and Processing (all processing steps after raw data exists)",
      "Preprocessing",
      "data preparation" }

SetOptions == {SUFFICIENT, UNCLEAR, INSUFFICIENT}

\* C8: the save loop encodes a set option as sufficient=2, unclear=1,
\* insufficient=0 (three values) or sufficient=1, insufficient=0 (two values);
\* _format_existing_label_for_ui decodes the code to the option, and the next
\* render shows it; an absent cell is rendered unset; unset and no selection
\* encode to None, and the save loop then leaves the cell as it was.
C8_EncodeDecodeInverse ==
    /\ [](/\ (control_pc = "saved" /\ ctl_choice \in SetOptions) =>
                /\ ctl_parsed = DocumentedCode(ctl_cat \in ThreeValuedNames, ctl_choice)
                /\ ctl_existing = ctl_parsed
                /\ _format_existing_label_for_ui(ctl_cat, ctl_parsed) = ctl_choice
          /\ (control_pc = "saved" /\ ctl_choice \notin SetOptions) => ctl_parsed = None
          /\ (control_pc = "shown" /\ ctl_existing \in {None, NaN}) => ctl_default = UNSET)
    /\ [][/\ (control_pc = "chosen" /\ control_pc' = "saved" /\ ctl_choice \notin SetOptions) =>
                ctl_existing' = ctl_existing
          /\ (control_pc = "saved" /\ control_pc' = "shown" /\ ctl_choice \in SetOptions) =>
                ctl_default' = ctl_choice
       ]_vars

\* C8 witness: "unclear" was chosen for "Preprocessing", stored as 1, and the
\* control is rendered again with "unclear".
C8_Witness ==
    /\ ctl_cat = "Preprocessing"
    /\ control_pc = "shown"
    /\ ctl_choice = UNCLEAR
    /\ ctl_existing = 1
    /\ ctl_default = UNCLEAR

\* C9: a name of the fixed set, or with "provenance", "preparation" or
\* "processing" in its lowercased form, gets the four options with "unclear",
\* every other name the three without; and encoding and decoding follow the
\* same classification.
C9_TernaryClassification ==
    control_pc # "start" =>
        LET ternary == ctl_cat \in ThreeValuedNames
        IN  /\ ctl_options = IF ternary
                             THEN <<UNSET, SUFFICIENT, UNCLEAR, INSUFFICIENT>>
                             ELSE <<UNSET, SUFFICIENT, INSUFFICIENT>>
            /\ (control_pc = "saved" /\ ctl_choice = SUFFICIENT) =>
                  ctl_parsed = IF ternary THEN 2 ELSE 1
            /\ (control_pc = "shown" /\ ctl_existing = 2) =>
                  ctl_default = IF ternary THEN SUFFICIENT ELSE UNSET
            /\ (control_pc = "shown" /\ ctl_existing = 1) =>
                  ctl_default = IF ternary THEN UNCLEAR ELSE SUFFICIENT

\* C9 witness: "DATA PROVENANCE", which is not in the fixed set, was offered
\* "unclear", and "sufficient" was saved for it as 2.
C9_Witness ==
    /\ ctl_cat = "DATA PROVENANCE"
    /\ control_pc = "saved"
    /\ Len(ctl_options) = 4
    /\ ctl_choice = SUFFICIENT
    /\ ctl_parsed = 2

\* C10: an update whose name, stripped, is not the selected name and is a key
\* of the registry leaves categories.json and the dict in memory as they were,
\* calls no save, and shows the error.
C10_RenameCollision ==
    [][(/\ registry_run'.op = "update"
        /\ registry_run'.name # ""
        /\ registry_run'.name # registry_run'.selected_name
        /\ registry_run'.name \in DOMAIN categories_json.data) =>
            /\ categories_json' = categories_json
            /\ categories' = categories_json.data
            /\ ~registry_run'.wrote
            /\ registry_run'.messages = {"collision"}
    ]_vars

\* C10 witness: the last run refused to rename a category to the name of
\* another one; both are in the file with different fields.
C10_Witness ==
    /\ registry_run.op = "update"
    /\ registry_run.messages = {"collision"}
    /\ ~registry_run.wrote
    /\ registry_run.name # registry_run.selected_name
    /\ {registry_run.name, registry_run.selected_name} \subseteq DOMAIN categories_json.data
    /\ categories_json.data[registry_run.name] # categories_json.data[registry_run.selected_name]
    /\ categories = categories_json.data

\* A run of "Kategorie aktualisieren" that saved, with a new name that is not
\* blank and not taken, and a form whose other fields were left as rendered.
NameOnlyRename ==
    /\ registry_run'.op = "update"
    /\ registry_run'.wrote
    /\ "save_error" \notin registry_run'.messages
    /\ categories_json.is_dict
    /\ registry_run'.selected_name \in DOMAIN categories_json.data
    /\ registry_run'.name # registry_run'.selected_name
    /\ registry_run'.form = EditForm(categories_json.data[registry_run'.selected_name])

\* C11: editing only the name of an existing category to a new, non-colliding,
\* non-blank value persists a registry in which the old key is absent, the new
\* key is present, every other key is unchanged, and the record under the new
\* key equals the old record in all its fields.
C11_RenamePreservesContent ==
    [][NameOnlyRename =>
         LET old == categories_json.data
             new == categories_json'.data
             selected_name == registry_run'.selected_name
             new_name == registry_run'.name
         IN  /\ selected_name \notin DOMAIN new
             /\ new_name \in DOMAIN new
             /\ DOMAIN new = (DOMAIN old \ {selected_name}) \cup {new_name}
             /\ \A k \in DOMAIN old \ {selected_name} : new[k] = old[k]
             /\ new[new_name] = old[selected_name]]_vars

\* The four list fields of a record, and the form field each is typed into.
ListFields ==
    { <<"dataset_search_queries_positive", "ds_pos">>,
      <<"dataset_search_queries_negative", "ds_neg">>,
      <<"sentence_keywords_positive", "sent_pos">>,
      <<"sentence_keywords_negative", "sent_neg">> }

\* The texts of FormInputs, split on newlines, blank lines removed, each line
\* trimmed, in the original order (written out by hand).
SplitTrimmed ==
    [text \in {f[lf[2]] : f \in FormInputs, lf \in ListFields} |->
        CASE text = "synthetic dataset\n\n simulated data \n" ->
                 <<"synthetic dataset", "simulated data">>
          [] text = "this dataset is synthetic" -> <<"this dataset is synthetic">>
          [] text = "real data only\r\nno synthetic data" ->
                 <<"real data only", "no synthetic data">>
          [] text = "" -> <<>>]

\* A record of the shape the forms write: the six fields, a label unit of the
\* select box, a trimmed description, and lists of trimmed non-empty lines.
WrittenByForm(record) ==
    /\ DOMAIN record = {"label_unit", "description"} \cup {lf[1] : lf \in ListFields}
    /\ \E i \in 1..Len(label_unit_options) : label_unit_options[i] = record.label_unit
    /\ record.description = Strip(record.description)
    /\ \A lf \in ListFields :
          \A i \in 1..Len(record[lf[1]]) :
             LET line == record[lf[1]][i]
             IN  /\ line # ""
                 /\ line = Strip(line)
                 /\ \A j \in 1..Len(line) : CharAt(line, j) \notin {"\n", "\r"}

\* The run saved a record under registry_run'.name.
SavedRecord(op) ==
    /\ registry_run'.op = op
    /\ registry_run'.wrote
    /\ "save_error" \notin registry_run'.messages

RowsOfCategory(file, cat) ==
    {i \in 1..Len(file.rows) : Strip(file.rows[i].category) = cat}

RowsWithDetail(file, cat) ==
    {i \in RowsOfCategory(file, cat) : Strip(file.rows[i].detail) # ""}

\* A file that holds a reduced table: one line per known category, in the
\* fixed order, every cell trimmed.
HoldsReducedTable(file) ==
    /\ file.exists
    /\ file.columns = MappingColumns
    /\ Len(file.rows) = Len(wanted_cats)
    /\ \A k \in 1..Len(wanted_cats) :
          /\ file.rows[k].category = wanted_cats[k]
          /\ \A col \in MappingColumns : file.rows[k][col] = Strip(file.rows[k][col])

\* C13: when the file holds several rows for a known category and one of them
\* has a non-empty detail, the loaded table has, for that category, the pillar
\* and detail of the first such row of the file, whatever the order of the
\* rows; and loading a file that holds a reduced table returns that table and
\* leaves the file as it is.
C13_MappingReduction ==
    [][mapping_run'.op = "render" =>
         /\ (mapping_csv.exists /\ MappingColumns \subseteq mapping_csv.columns) =>
               \A k \in 1..Len(wanted_cats) :
                  LET cat == wanted_cats[k]
                      with_detail == RowsWithDetail(mapping_csv, cat)
                  IN  (Cardinality(RowsOfCategory(mapping_csv, cat)) > 1
                       /\ with_detail # {}) =>
                         LET first == CHOOSE i \in with_detail :
                                         \A j \in with_detail : i <= j
                         IN  /\ mapping_df'[k].category = cat
                             /\ mapping_df'[k].pillar = Strip(mapping_csv.rows[first].pillar)
                             /\ mapping_df'[k].detail = Strip(mapping_csv.rows[first].detail)
         /\ HoldsReducedTable(mapping_csv) =>
               /\ mapping_df' = mapping_csv.rows
               /\ mapping_csv' = mapping_csv]_vars

\* The six built-in categories with their pillar citations, in the fixed order
\* (written out by hand).
BuiltInPillars ==
    << <<"Data Provenance", "Art. 10(2)(b)">>,
       <<"Data Composition", "Art. 10(2)">>,
       <<"Obtained From", "Annex IV 2(d)">>,
       <<"Data Preparation and Processing", "Art. 10(2)(c)">>,
       <<"Bias and Fairness Disclosure", "Art. 10(2)(f)(g)">>,
       <<"Annahmen über den Datensatz", "Art. 10(2)(d)">> >>

\* C14: a load from missing or empty storage returns exactly the six built-in
\* categories in their fixed order with their built-in pillars and persists
\* that table; the load that follows it returns the identical table, leaves
\* the file as it is and does not seed or reset to the default again.
C14_DefaultCompleteness ==
    [][mapping_run'.op = "render" =>
         /\ (~mapping_csv.exists \/ mapping_csv.rows = <<>>) =>
               /\ Len(mapping_df') = Len(BuiltInPillars)
               /\ \A k \in 1..Len(BuiltInPillars) :
                     /\ mapping_df'[k].category = BuiltInPillars[k][1]
                     /\ mapping_df'[k].pillar = BuiltInPillars[k][2]
               /\ mapping_csv'.exists
               /\ mapping_csv'.columns = MappingColumns
               /\ mapping_csv'.rows = mapping_df'
               /\ mapping_run'.path \in {"missing", "empty"}
         /\ mapping_run.path \in {"missing", "empty"} =>
               /\ mapping_df' = mapping_df
               /\ mapping_csv' = mapping_csv
               /\ mapping_run'.path = "reduce"]_vars

\* The table was seeded from missing storage and then loaded again.
C14_Witness ==
    /\ mapping_run.op = "render"
    /\ mapping_run.previous = "missing"
    /\ mapping_run.path = "reduce"
    /\ mapping_csv.exists
    /\ mapping_df = mapping_csv.rows
    /\ Len(mapping_df) = Len(BuiltInPillars)

\* The text after its first n lines and their line ends, character for
\* character.
RECURSIVE AfterLines(_, _)
AfterLines(text, n) ==
    IF n = 0 \/ text = "" THEN text
    ELSE LET len == FirstLineLen(text)
         IN  AfterLines(SubSeq(text, len + 1 + BreakLen(text, len + 1), Len(text)), n - 1)

\* The lines of a text that hold only the three-hyphen delimiter.
DelimiterLines(text) ==
    {i \in 1..Len(SplitLines(text)) : Strip(SplitLines(text)[i]) = "---"}

\* The first non-blank line of the text is a delimiter line and a later line
\* is one too: the number of that later line, else 0.
ClosingDelimiter(text) ==
    LET lines == SplitLines(text)
        non_blank == {i \in 1..Len(lines) : Strip(lines[i]) # ""}
        delimiters == DelimiterLines(text)
    IN  IF non_blank = {} THEN 0
        ELSE LET opening == CHOOSE i \in non_blank : \A k \in non_blank : i <= k
                 later == {j \in delimiters : j > opening}
             IN  IF opening \notin delimiters \/ later = {} THEN 0
                 ELSE CHOOSE j \in later : \A k \in later : j <= k

\* C17: _strip_frontmatter returns the text unmodified unless its first
\* non-blank line is the three-hyphen delimiter and a later line is a closing
\* delimiter; then it returns exactly the content after the first closing
\* delimiter line, character for character.
C17_FrontmatterStripping ==
    doc_op = "strip" =>
        IF ClosingDelimiter(doc_text) = 0
        THEN doc_out = doc_text
        ELSE doc_out = AfterLines(doc_text, ClosingDelimiter(doc_text))

\* The tags of a text as a browser reads them: "<", an optional "/", a letter;
\* the name runs up to white space, "/" or ">", and the tag up to the next ">".
\* A tag is [open, name, rest]: whether it is an opening tag, its name in lower
\* case, and its text after the name, up to and including ">".
LiveTags(html) ==
    LET NameStart(i) == IF i < Len(html) /\ CharAt(html, i + 1) = "/" THEN i + 2 ELSE i + 1
        NameStop(i) == Find(html, NameStart(i), Whitespace \cup {"/", ">"})
        starts == {i \in 1..Len(html) :
                      /\ CharAt(html, i) = "<"
                      /\ NameStart(i) <= Len(html)
                      /\ CharAt(html, NameStart(i)) \in AlnumChars \ Digits
                      /\ Find(html, i, {">"}) > 0}
    IN  { [open |-> NameStart(i) = i + 1,
           name |-> Lower(SubSeq(html, NameStart(i), NameStop(i) - 1)),
           rest |-> SubSeq(html, NameStop(i), Find(html, i, {">"}))] : i \in starts }

\* The text holds an anchor tag whose href value begins with javascript:,
\* quoted either way or unquoted.
JavascriptAnchor(html) ==
    \E tag \in LiveTags(html) :
       /\ tag.open
       /\ tag.name = "a"
       /\ \E p \in 2..Len(tag.rest) :
             LET eq == RunEnd(tag.rest, p + 4, Whitespace)
                 value == RunEnd(tag.rest, eq + 1, Whitespace)
             IN  /\ LitAt(tag.rest, p, "href")
                 /\ CharAt(tag.rest, p - 1) \notin WordChars
                 /\ eq <= Len(tag.rest)
                 /\ CharAt(tag.rest, eq) = "="
                 /\ \/ LitAt(tag.rest, value, "javascript:")
                    \/ /\ value <= Len(tag.rest)
                       /\ CharAt(tag.rest, value) \in Quotes
                       /\ LitAt(tag.rest, value + 1, "javascript:")

\* C15: for every input that holds an anchor tag whose href value begins with
\* javascript:, in any quoting style and with any characters in the URL, no
\* anchor of the output of _sanitize_html_basic has such an href.
C15_NoJavascriptHref ==
    (doc_op = "sanitize" /\ JavascriptAnchor(doc_text)) => ~JavascriptAnchor(doc_out)

\* C16: in the output of _sanitize_html_basic every live tag has a name of the
\* allow-list (a tag with another name, <script> included, is there only in
\* escaped form), and every opening tag other than <a> has no attributes.
C16_OnlyAllowedTags ==
    doc_op = "sanitize" =>
        \A tag \in LiveTags(doc_out) :
           /\ tag.name \in _ALLOWED_TAGS
           /\ (tag.open /\ tag.name # "a") => tag.rest = ">"


\* `short in long`, the two different
ProperPart(short, long) == short # "" /\ short # long /\ Contains(long, short)

\* C18: when one keyword is a part of another and the plain-text document
\* contains the longer one literally, the highlighted text holds the longer
\* phrase wrapped whole in one marker of its colour, with no marker of the
\* shorter keyword inside it.
C18_LongerPhraseOneMarker ==
    doc_op = "highlight" =>
        \A k, j \in 1..Len(doc_pairs) :
           (/\ ProperPart(doc_pairs[j].keyword, doc_pairs[k].keyword)
            /\ Contains(doc_text, doc_pairs[k].keyword))
           => Contains(doc_out,
                       Marker(doc_pairs[k].color, HtmlEscape(doc_pairs[k].keyword)))


\* The run of session s renders the sync section with the upload button.
UploadAvailable(s) == Screen(s) = "document"

\* C19: whenever the working copy of a session has edits that are not uploaded
\* (the dirty flag is set), the screen of the session shows the upload button;
\* so also after the save that labels the last undone document.
C19_DirtyCanUpload ==
    \A s \in Sessions : df_dirty[s] => UploadAvailable(s)


\* The step ends an upload of session s that shows the success message.
UploadShowsSuccess(s) == upload_pc[s] = "merge" /\ UploadSucceeded(s)'

\* The cell of the working copy of session s for doc_id d and column col,
\* empty when the working copy has no such column.
LocalCell(s, d, col) ==
    IF col \in Columns(df_plan[s]) THEN CellOf(df_plan[s], d, col) ELSE NaN

\* C20: after a successful upload, on every row whose doc_id the plan the upload
\* read and the working copy share, each Daniel__ cell of the remote plan is the
\* working copy's cell where that is set and the cell of the plan read where it
\* is empty; the remote plan has the rows and the columns of the plan read; the
\* dirty flag is False and the version counter is one higher.
C20_UploadPostState ==
    [][\A s \in Sessions :
        UploadShowsSuccess(s) =>
            /\ \A i \in 1..Len(df_remote[s]) :
                 HasDocId(df_plan[s], df_remote[s][i].doc_id) =>
                    \A col \in _get_daniel_columns(Columns(df_remote[s])) :
                       LET local == LocalCell(s, df_remote[s][i].doc_id, col)
                       IN  label_csv'[i].cells[col] =
                               IF local # NaN THEN local ELSE df_remote[s][i].cells[col]
            /\ Len(label_csv') = Len(df_remote[s])
            /\ \A i \in 1..Len(df_remote[s]) : label_csv'[i].doc_id = df_remote[s][i].doc_id
            /\ Columns(label_csv') = Columns(df_remote[s])
            /\ df_dirty'[s] = FALSE
            /\ labelplan_version'[s] = labelplan_version[s] + 1
    ]_vars

\* C20 witness: session A has uploaded with success; the remote plan holds a
\* label of A's working copy and, in a cell the working copy leaves empty, the
\* label that was in the plan before; A's dirty flag is cleared and its version
\* counter was raised.
C20_Witness ==
    /\ UploadSucceeded("A")
    /\ upload_pc["A"] = "idle"
    /\ ~df_dirty["A"]
    /\ labelplan_version["A"] = 1
    /\ \E d \in DocIds :
         /\ CellOf(df_plan["A"], d, "Daniel__Data Provenance") = NaN
         /\ CellOf(label_csv, d, "Daniel__Data Provenance") # NaN


\* The step is an upload run of session s that does not end with success: the
\* read failed or gave a plan without doc_id, or the write failed.
UploadFailedStep(s) ==
    \/ upload_pc[s] = "idle" /\ upload_pc'[s] = "idle" /\ RunOf(s, {"upload"})
    \/ upload_pc[s] = "merge" /\ upload_pc'[s] = "idle" /\ ~UploadSucceeded(s)'

\* The step is the reload of the plan by session s.
ReloadStep(s) == RunOf(s, {"reload"})

\* C21: an upload whose read fails, whose plan read has no doc_id column, or
\* whose write fails leaves the remote plan, the working copy, the dirty flag
\* and the version counter as they were and shows an error; the dirty flag goes
\* from set to cleared only in a successful upload or a reload of the plan.
C21_FailedUploadChangesNothing ==
    [][\A s \in Sessions :
        /\ UploadFailedStep(s) =>
              /\ label_csv' = label_csv
              /\ df_plan'[s] = df_plan[s]
              /\ df_dirty'[s] = df_dirty[s]
              /\ labelplan_version'[s] = labelplan_version[s]
              /\ last_run'[s].op = "upload"
              /\ last_run'[s].banner = "error"
        /\ (df_dirty[s] /\ ~df_dirty'[s]) => (UploadSuccessStep(s) \/ ReloadStep(s))
    ]_vars

\* C21 witness: session A has unsynced labels, the plan file has lost its doc_id
\* column, and the upload A pressed ended with the error.
C21_Witness ==
    /\ last_run["A"].op = "upload"
    /\ last_run["A"].banner = "error"
    /\ upload_pc["A"] = "idle"
    /\ df_dirty["A"]
    /\ ~HasDocIdColumn(label_csv)
    /\ HasDocIdColumn(df_plan["A"])


\* Every set Daniel__ cell of the working copy of session s is in the remote plan.
LabelsSynced(s) ==
    \A i \in 1..Len(df_plan[s]) :
       \A col \in _get_daniel_columns(Columns(df_plan[s])) :
          df_plan[s][i].cells[col] # NaN =>
             /\ HasDocId(label_csv, df_plan[s][i].doc_id)
             /\ CellOf(label_csv, df_plan[s][i].doc_id, col) = df_plan[s][i].cells[col]

\* C22: in one session, after any sequence of saves, skips, jumps, uploads
\* (successful or failed) and reloads, whenever the dirty flag is False every
\* set Daniel__ cell of the working copy equals the cell of the remote plan.
C22_CleanMeansSynced ==
    \A s \in Sessions : ~df_dirty[s] => LabelsSynced(s)

\* C22 witness: session A saved a label, uploaded it and reloaded the plan; the
\* flag is False and the label is in the working copy and in the remote plan.
C22_Witness ==
    /\ ~df_dirty["A"]
    /\ last_run["A"].op = "reload"
    /\ \E d \in DocIds :
         /\ CellOf(df_plan["A"], d, "Daniel__Data Provenance") # NaN
         /\ CellOf(label_csv, d, "Daniel__Data Provenance")
               = CellOf(df_plan["A"], d, "Daniel__Data Provenance")


\* C23: the reload of the plan leaves the session with the remote plan as the
\* run after it read it (with no working copy when that read failed), so the
\* labels saved since the last upload are gone from the session; the dirty
\* flag is False and the version counter is one higher; the skip cache of the
\* session, the skip file and the remote plan are as before.
C23_ReloadDiscards ==
    [][\A s \in Sessions :
        ReloadStep(s) =>
            /\ df_plan'[s] = IF last_run'[s].banner = "error" THEN NoPlan ELSE label_csv
            /\ (HasDocIdColumn(df_plan[s]) /\ ~LabelsSynced(s)) => df_plan'[s] # df_plan[s]
            /\ df_dirty'[s] = FALSE
            /\ labelplan_version'[s] = labelplan_version[s] + 1
            /\ skipped_cache'[s] = skipped_cache[s]
            /\ skipped_csv' = skipped_csv
            /\ label_csv' = label_csv
    ]_vars

\* C23 witness: session A reloaded the plan after an upload and a skip; its
\* working copy is the remote plan, which holds the uploaded label, and the
\* skip cache still holds the skipped document.
C23_Witness ==
    /\ last_run["A"].op = "reload"
    /\ last_run["A"].banner = "info"
    /\ df_plan["A"] = label_csv
    /\ ~df_dirty["A"]
    /\ labelplan_version["A"] = 2
    /\ skipped_cache["A"] # <<>>
    /\ HasDocIdColumn(label_csv)
    /\ \E d \in DocIds : CellOf(label_csv, d, "Daniel__Data Provenance") # NaN


\* The cell holds a value that is neither absent nor a blank string.
HoldsLabel(value) == value \notin {NaN, BlankCell}

\* The Daniel__ cells of row i of the working copy of session s that hold a label.
LabelCells(s, i) ==
    {col \in PlanColumns : IsDanielColumn(col) /\ HoldsLabel(df_plan[s][i].cells[col])}

InSkipList(s, i) == \E j \in 1..Len(skipped_cache[s]) : skipped_cache[s][j] = df_plan[s][i].doc_id

\* C24: a row of the plan counts as done exactly when its doc_id is in the skip
\* list of the session or one of the annotator's Daniel__ columns holds a value
\* that is neither absent nor blank; so a label in a single category makes the
\* document done, and a skipped document is done with none of its cells set.
C24_DefinitionOfDone ==
    \A s \in Sessions :
       /\ Progress(s).total_docs = Len(df_plan[s])
       /\ \A i \in 1..Len(df_plan[s]) :
            /\ Progress(s).done_mask[i] <=> (InSkipList(s, i) \/ LabelCells(s, i) # {})
            /\ Cardinality(LabelCells(s, i)) = 1 => Progress(s).done_mask[i]
            /\ (InSkipList(s, i) /\ LabelCells(s, i) = {}) => Progress(s).done_mask[i]
       /\ Progress(s).done_docs =
             Cardinality({i \in 1..Len(df_plan[s]) :
                             InSkipList(s, i) \/ LabelCells(s, i) # {}})

\* C24 witness: after a save or a skip, one document is done by a label in a
\* single column and is not skipped, and one is done by the skip alone.
C24_Witness ==
    /\ last_run["A"].op \in {"save", "skip"}
    /\ \E i \in 1..Len(df_plan["A"]) :
         Cardinality(LabelCells("A", i)) = 1 /\ ~InSkipList("A", i)
    /\ \E i \in 1..Len(df_plan["A"]) :
         InSkipList("A", i) /\ LabelCells("A", i) = {} /\ Progress("A").done_mask[i]
    /\ Progress("A").done_docs = 2


\* The keys the run of the step works on: the name typed and the category selected.
TargetedKeys == {registry_run'.name, registry_run'.selected_name}

\* C25: a create, an edit or a delete of the registry screen changes only the
\* targeted keys of the stored registry: every other category stored before the
\* step is stored after it with the same record, also when the screen works
\* from an empty registry because the read at the start of the run failed.
C25_OtherCategoriesKept ==
    [][categories_json.is_dict =>
          \A key \in DOMAIN categories_json.data \ TargetedKeys :
             /\ categories_json'.is_dict
             /\ key \in DOMAIN categories_json'.data
             /\ categories_json'.data[key] = categories_json.data[key]
    ]_vars


\* The registry categories.json holds: its dict, or no key when it holds no dict.
StoredRegistry(file) == IF file.is_dict THEN file.data ELSE EmptyDict

\* C26: a create whose name is blank after trimming, or is a key of the
\* registry, is refused with an error, writes nothing and leaves the registry
\* as it was; any other create (whose save request succeeds) stores the
\* registry with exactly one key more, the other records unchanged.
C26_CreateValidation ==
    [][registry_run'.op = "create" =>
          LET name == registry_run'.name
              stored == StoredRegistry(categories_json)
          IN  IF name = "" \/ name \in DOMAIN stored
              THEN /\ categories_json' = categories_json
                   /\ ~registry_run'.wrote
                   /\ registry_run'.messages \cap {"name_missing", "name_exists"} # {}
              ELSE "save_error" \notin registry_run'.messages =>
                      /\ registry_run'.wrote
                      /\ categories_json'.is_dict
                      /\ DOMAIN categories_json'.data = DOMAIN stored \cup {name}
                      /\ \A key \in DOMAIN stored :
                            categories_json'.data[key] = stored[key]
    ]_vars


\* The current document of session s is a row whose file the index does not hold.
MissingFileCurrent(s) ==
    /\ CurrentIndex(s) # -1
    /\ CurrentRow(s).filename \notin readme_index

\* C27 as claimed: while the row whose file is missing is the current document,
\* the session can still skip it, jump to another document and upload.
C27_MissingFileDoesNotBlock ==
    \A s \in Sessions :
       (MissingFileCurrent(s) /\ upload_pc[s] = "idle" /\ runs < MaxRuns) =>
          /\ ENABLED Skip(s)
          /\ \E k \in 0..(NumDocs - 1) : ENABLED Jump(s, k)
          /\ ENABLED UploadRead(s, TRUE)

\* C27 as the code has it: while the row whose file is missing is the current
\* document, the run ends at the error: the session makes no save, skip, jump
\* or upload run, only the reload of the plan, and until then its working
\* copy, dirty flag, skip cache and jump target and the index, which decide
\* the current document, stay as they are.
C27_MissingFileHalts ==
    [][\A s \in Sessions :
        MissingFileCurrent(s) =>
            /\ last_run'[s] # last_run[s] => ReloadStep(s)
            /\ ~ReloadStep(s) =>
                  /\ df_plan'[s] = df_plan[s]
                  /\ df_dirty'[s] = df_dirty[s]
                  /\ skipped_cache'[s] = skipped_cache[s]
                  /\ manual_doc_index'[s] = manual_doc_index[s]
                  /\ readme_index' = readme_index
    ]_vars

\* C27 witness: after a save of session A the next undone row is one whose
\* file is missing; an undone row is left and A's labels are not uploaded.
C27_Witness ==
    /\ MissingFileCurrent("A")
    /\ Screen("A") = "file_missing"
    /\ last_run["A"].op = "save"
    /\ df_dirty["A"]
    /\ \E i \in 1..Len(df_plan["A"]) : ~DocDone("A", df_plan["A"][i].doc_id)

\* The rows of the edited table whose trimmed category is cat, and those of
\* them with a non-empty trimmed detail.
EditedRowsOf(table, cat) ==
    {i \in 1..Len(table) : Strip(table[i].category) = cat}

EditedRowsWithDetail(table, cat) ==
    {i \in EditedRowsOf(table, cat) : Strip(table[i].detail) # ""}

\* The row of the edited table that the claim says is kept for cat: its first
\* row with a non-empty detail, else its first row.
KeptRow(table, cat) ==
    LET from == IF EditedRowsWithDetail(table, cat) # {}
                THEN EditedRowsWithDetail(table, cat) ELSE EditedRowsOf(table, cat)
    IN  CHOOSE i \in from : \A j \in from : i <= j

\* The table saved from the edited table has one row per known category in the
\* fixed order, each the kept row of the edited table or, for a category with
\* no row in it, the built-in default row.
SavedAsClaimed(table, saved) ==
    /\ Len(saved) = Len(wanted_cats)
    /\ \A k \in 1..Len(wanted_cats) :
          LET cat == wanted_cats[k]
          IN  /\ saved[k].category = cat
              /\ IF EditedRowsOf(table, cat) = {}
                 THEN /\ saved[k].pillar = BuiltInPillars[k][2]
                      /\ saved[k].detail = DefaultRows[k].detail
                 ELSE /\ saved[k].pillar = Strip(table[KeptRow(table, cat)].pillar)
                      /\ saved[k].detail = Strip(table[KeptRow(table, cat)].detail)

\* C28: a save persists, for the edited table, one row per known category in
\* the fixed order (rows with an empty or unknown category dropped, the first
\* row with a non-empty detail kept for a category with several rows, the
\* built-in default row for a category without a row), and the load that
\* follows the save returns exactly the saved table.
C28_SaveMapping ==
    [][mapping_run'.op = "save" =>
         /\ SavedAsClaimed(mapping_run'.edited, mapping_run'.saved)
         /\ mapping_df' = mapping_run'.saved]_vars

\* The saved part of C28 alone.
SaveShape ==
    [][mapping_run'.op = "save" =>
         SavedAsClaimed(mapping_run'.edited, mapping_run'.saved)]_vars

\* The load-after-save part of C28 for saved tables without a cell that
\* read_csv takes for a missing value.
SaveRoundTripPlainCells ==
    [][(/\ mapping_run'.op = "save"
        /\ \A k \in 1..Len(mapping_run'.saved) : \A col \in MappingColumns :
               mapping_run'.saved[k][col] \notin na_values \ {""}) =>
         mapping_df' = mapping_run'.saved]_vars

\* The file has a line of an unknown category: its trimmed category is not
\* empty and not one of wanted_cats.
HasMismatchedRow(file) ==
    \E i \in 1..Len(file.rows) :
        /\ Strip(file.rows[i].category) # ""
        /\ Strip(file.rows[i].category) \notin SeqToSet(wanted_cats)

\* The default table was returned and is what the file holds.
ResetToDefault ==
    /\ mapping_df' = DefaultRows
    /\ mapping_csv'.exists
    /\ mapping_csv'.columns = MappingColumns
    /\ mapping_csv'.rows = DefaultRows

\* C29: a load of a stored mapping that holds zero or several rows for a
\* known category, or a row of an unknown category, returns the built-in
\* default table and persists it.
C29_LoadResetRule ==
    [][(/\ mapping_run'.op = "render"
        /\ mapping_csv.exists
        /\ \/ \E k \in 1..Len(wanted_cats) :
                 Cardinality(RowsOfCategory(mapping_csv, wanted_cats[k])) # 1
           \/ HasMismatchedRow(mapping_csv)) =>
         ResetToDefault]_vars

\* Every known category has a line in the file (and the file a category
\* column).
EveryCategoryStored(file) ==
    /\ file.exists
    /\ "category" \in file.columns
    /\ \A k \in 1..Len(wanted_cats) : RowsOfCategory(file, wanted_cats[k]) # {}

\* C29, amended: a load resets to the built-in default table and persists it
\* exactly when the file is missing, has no category column, or some known
\* category has no row in it;
\* when every known category has a row, also several rows or next to rows of
\* unknown categories, the load does not reset: for every known category it
\* returns and persists one row taken from the file's rows of that category
\* (a cell as trimmed, or empty).
C29_ResetWhenCategoryAbsent ==
    [][mapping_run'.op = "render" =>
         IF ~EveryCategoryStored(mapping_csv)
         THEN ResetToDefault /\ mapping_run'.path # "reduce"
         ELSE /\ mapping_run'.path = "reduce"
              /\ Len(mapping_df') = Len(wanted_cats)
              /\ mapping_csv'.rows = mapping_df'
              /\ \A k \in 1..Len(wanted_cats) :
                    /\ mapping_df'[k].category = wanted_cats[k]
                    /\ \E i \in RowsOfCategory(mapping_csv, wanted_cats[k]) :
                          \A col \in {"pillar", "detail"} :
                             mapping_df'[k][col] \in
                                {"", IF col \in mapping_csv.columns
                                     THEN Strip(mapping_csv.rows[i][col]) ELSE ""}]_vars

\* A file with several Data Provenance rows and a row for every other known
\* category was loaded: the table returned is not the default table, and it
\* is what the file holds now.
C29_Witness ==
    /\ mapping_run.op = "render"
    /\ mapping_run.path = "reduce"
    /\ mapping_run.previous = "none"
    /\ mapping_df # DefaultRows
    /\ mapping_df[1].detail = "Quelle des Datensatzes"
    /\ mapping_csv.rows = mapping_df

\* The step is a save of session s that went through with every category
\* control left unset.
UnsetSave(s) ==
    /\ RunOf(s, {"save"})
    /\ last_run'[s].banner = "success"
    /\ \A cat \in PlanCategories : last_run'[s].widgets[cat] = UNSET

\* The rows of the working copy of session s that are not done.
UndoneRows(s) ==
    {i \in 1..Len(df_plan[s]) : ~InSkipList(s, i) /\ LabelCells(s, i) = {}}

\* The current document of session s is not done.
CurrentUndone(s) ==
    \E i \in UndoneRows(s) : df_plan[s][i].doc_index = CurrentIndex(s)

\* The current document of session s is its first row that is not done.
CurrentIsFirstUndone(s) ==
    \E i \in UndoneRows(s) :
        /\ df_plan[s][i].doc_index = CurrentIndex(s)
        /\ \A j \in UndoneRows(s) : i <= j

\* What a save with every control unset leaves as it is, and what it clears.
UnsetSaveFrame(s) ==
    /\ df_plan'[s] = df_plan[s]
    /\ df_dirty'[s] = df_dirty[s]
    /\ skipped_cache'[s] = skipped_cache[s]
    /\ manual_doc_index'[s] = None
    /\ Progress(s)'.done_docs = Progress(s).done_docs

\* C30: a save with every category control left unset changes neither the
\* working copy nor the dirty flag of the session and clears the manual jump
\* target; the done count stays, and when the current document was not done
\* the same document is the current document after the save.
C30_UnsetSaveNoOp ==
    [][\A s \in Sessions :
        UnsetSave(s) =>
            /\ UnsetSaveFrame(s)
            /\ CurrentUndone(s) => CurrentIndex(s)' = CurrentIndex(s)
    ]_vars

\* C30, amended: a save with every category control left unset changes
\* neither the working copy nor the dirty flag of the session and clears the
\* manual jump target; the done count stays, and the current document after
\* the save is the first row of the plan that is not done (none, with the
\* completion message, when every row is done): the same document again
\* exactly when the current document was that row, and another document when
\* a manual jump had led to a later row that is not done or to a done row.
C30_UnsetSaveShowsFirstUndone ==
    [][\A s \in Sessions :
        UnsetSave(s) =>
            /\ UnsetSaveFrame(s)
            /\ IF UndoneRows(s) = {}
               THEN CurrentIndex(s)' = -1
               ELSE \E i \in UndoneRows(s) :
                       /\ \A j \in UndoneRows(s) : i <= j
                       /\ CurrentIndex(s)' = df_plan[s][i].doc_index
            /\ CurrentIsFirstUndone(s) <=> CurrentIndex(s)' = CurrentIndex(s)
            /\ manual_doc_index[s] = None => CurrentIsFirstUndone(s)
    ]_vars

\* Session A saved with every control unset; its working copy is not dirty
\* and the document shown after the save is not done.
C30_Witness ==
    /\ last_run["A"].op = "save"
    /\ last_run["A"].banner = "success"
    /\ \A cat \in PlanCategories : last_run["A"].widgets[cat] = UNSET
    /\ ~df_dirty["A"]
    /\ manual_doc_index["A"] = None
    /\ CurrentUndone("A")

====
